---- MODULE Spec2Model ----
(***************************************************************************)
(* Document processing pipeline of the document_processing_microservice:   *)
(* DocumentProcessingPipeline.process_document and the services it calls   *)
(* (DocumentValidator, OCRService, AIClassificationService, BoostrService, *)
(* WebSocketService), one invocation per behaviour.                        *)
(*                                                                         *)
(* Python values: a str is Str(<<characters>>), None is None.  A dict is a *)
(* function whose DOMAIN is the set of keys present.  An f-string is the   *)
(* concatenation of its fragments (a sequence of strings).  Accents of the *)
(* source's string literals are dropped; an accented character of a value  *)
(* is one character written as its letter and its mark ("e'", "n~", "u:"). *)
(* confidence_score is counted in hundredths (0.7 is 70).                  *)
(***************************************************************************)
EXTENDS Integers, Sequences, FiniteSets, TLC

VARIABLES
    owner_user_name,  \* argument of process_document
    document,         \* argument of process_document (a dict)
    contexto,         \* the processing context of the invocation
    pc,               \* position inside process_document
    exc,              \* exception travelling to the except clauses (NoExc when none)
    calls,            \* provider calls made so far, in order
    notifications,    \* progress-notification attempts made so far, in order
    outcome,          \* "running", "returned" or "raised"
    result,           \* the ProcessedDocumentResult once returned
    poll,             \* the result poll loop of OCRService._get_ocr_results
    ai_call,          \* one call of AIClassificationService and the reply it gets
    twin,             \* a second run of the invocation, with the same provider outcomes
    pair,             \* two invocations on one pipeline object, and the objects they hold
    service_call      \* one call of a method of a service, its arguments and what it gave

vars ==
    <<owner_user_name, document, contexto, pc, exc, calls, notifications, outcome, result,
      poll, ai_call, twin, pair, service_call>>

----------------------------------------------------------------------------
(* Python values *)

None == [t |-> "None", s |-> <<>>]
Str(s) == [t |-> "str", s |-> s]
IsStr(v) == v.t = "str"
Truthy(v) == v.t = "str" /\ v.s # <<>>
Get(d, k, default) == IF k \in DOMAIN d THEN d[k] ELSE default

EmptyDict == [k \in {} |-> None]

Whitespace == {" ", "\n", "\t"}

RECURSIVE LStrip(_)
LStrip(s) == IF s # <<>> /\ Head(s) \in Whitespace THEN LStrip(Tail(s)) ELSE s

RECURSIVE RStrip(_)
RStrip(s) ==
    IF s # <<>> /\ s[Len(s)] \in Whitespace THEN RStrip(SubSeq(s, 1, Len(s) - 1)) ELSE s

\* str.strip()
Strip(s) == RStrip(LStrip(s))

LowerChar(c) ==
    CASE c = "A" -> "a" [] c = "B" -> "b" [] c = "C" -> "c" [] c = "D" -> "d"
      [] c = "E" -> "e" [] c = "F" -> "f" [] c = "G" -> "g" [] c = "H" -> "h"
      [] c = "I" -> "i" [] c = "J" -> "j" [] c = "K" -> "k" [] c = "L" -> "l"
      [] c = "M" -> "m" [] c = "N" -> "n" [] c = "O" -> "o" [] c = "P" -> "p"
      [] c = "Q" -> "q" [] c = "R" -> "r" [] c = "S" -> "s" [] c = "T" -> "t"
      [] c = "U" -> "u" [] c = "V" -> "v" [] c = "W" -> "w" [] c = "X" -> "x"
      [] c = "Y" -> "y" [] c = "Z" -> "z" [] c = "A'" -> "a'" [] c = "E'" -> "e'"
      [] c = "I'" -> "i'" [] c = "O'" -> "o'" [] c = "U'" -> "u'" [] c = "N~" -> "n~"
      [] c = "A:" -> "a:" [] c = "U:" -> "u:"
      [] OTHER -> c

\* str.lower()
Lower(s) == [i \in 1..Len(s) |-> LowerChar(s[i])]

\* str.endswith(suffix)
EndsWith(s, suffix) ==
    /\ Len(suffix) <= Len(s)
    /\ SubSeq(s, Len(s) - Len(suffix) + 1, Len(s)) = suffix

RECURSIVE Join(_, _)
\* sep.join(parts)
Join(sep, parts) ==
    IF parts = <<>> THEN <<>>
    ELSE IF Len(parts) = 1 THEN parts[1]
    ELSE parts[1] \o sep \o Join(sep, Tail(parts))

----------------------------------------------------------------------------
(* Exceptions *)

NoExc == [type |-> "none", msg |-> <<>>]
Raise(type, msg) == [type |-> type, msg |-> msg]

\* requests.RequestException raised by a probe, by kind of str(error)
RequestErrors == {"NameResolutionError", "timeout", "connection"}

----------------------------------------------------------------------------
(* Enumerations of core/schemas.py *)

FinalDecisionStatus == {"APPROVED", "REJECTED", "MANUAL_REVIEW"}

ProcessingStatus ==
    {"PENDING", "PREVALIDATION", "REVI", "CLASSIFICATION", "EXTRACTION", "AUTHENTICITY",
     "VALIDATION", "VALIDATION_IDENTIDAD_CL", "COMPLETED", "FAILED"}

----------------------------------------------------------------------------
(* config/settings.py *)

ALLOWED_DOCUMENT_EXTENSIONS ==
    { <<".", "p", "d", "f">>, <<".", "j", "p", "g">>, <<".", "j", "p", "e", "g">>,
      <<".", "p", "n", "g">>, <<".", "t", "i", "f", "f">>, <<".", "t", "i", "f">> }

MAX_FILE_SIZE_MB == 50

----------------------------------------------------------------------------
(* services/document_validator.py *)

\* Outcomes of the first HEAD probe: a status code or a RequestException.
HeadOutcomes == {"200", "404"} \cup RequestErrors

\* Outcomes of the second HEAD probe: no content-length header, a size in MB,
\* or an exception.
SizeOutcomes == {"absent", "error", "10", "50", "51"}

SizeMB(o) == CASE o = "10" -> 10 [] o = "50" -> 50 [] o = "51" -> 51 [] OTHER -> 0

_is_supported_file_type(file_name) ==
    \E ext \in ALLOWED_DOCUMENT_EXTENSIONS : EndsWith(Lower(file_name), ext)

_validate_file_size(size) ==
    IF size = "error" THEN TRUE
    ELSE IF size = "absent" THEN TRUE
    ELSE SizeMB(size) <= MAX_FILE_SIZE_MB

_get_connection_error_message(error) ==
    IF error = "NameResolutionError"
    THEN <<"No se pudo acceder a la URL del documento (dominio no encontrado)">>
    ELSE IF error = "timeout"
    THEN <<"No se pudo acceder a la URL del documento (tiempo de espera agotado)">>
    ELSE <<"No se pudo acceder a la URL del documento">>

\* validate_document(document) under the probe outcomes head and size:
\* [exc, is_valid, message]; exc is the exception it lets escape, if any.
validate_document(doc, head, size) ==
    LET file_url == Get(doc, "file_url", None)
        file_name == Get(doc, "file_name", Str(<<"N", "/", "A">>))
        Ret(v, m) == [exc |-> NoExc, is_valid |-> v, message |-> m]
    IN  IF ~Truthy(file_url) THEN Ret(FALSE, <<"URL del documento no proporcionada">>)
        ELSE IF head \in RequestErrors THEN Ret(FALSE, _get_connection_error_message(head))
        ELSE IF head # "200"
        THEN Ret(FALSE, <<"No se pudo acceder a la URL del documento (codigo de error: ", head, ")">>)
        ELSE IF ~IsStr(file_name)
        THEN [exc |-> Raise("AttributeError", <<"'NoneType' object has no attribute 'lower'">>),
              is_valid |-> FALSE, message |-> <<>>]
        ELSE IF ~_is_supported_file_type(file_name.s)
        THEN Ret(FALSE, <<"Tipo de archivo no soportado: ", file_name.s>>)
        ELSE IF ~_validate_file_size(size)
        THEN Ret(FALSE, <<"Archivo demasiado grande (maximo ", "50", "MB)">>)
        ELSE Ret(TRUE, <<"Documento valido">>)

----------------------------------------------------------------------------
(* services/ocr_service.py *)

\* Lines the OCR backend may recognise (in backend order, across pages).
OcrLines ==
    { <<>>,
      << <<" ">> >>,
      << <<"R", "U", "T">> >>,
      << <<"J", "u", "a", "n">>, <<"1", "-", "9">> >> }

\* What the download, the submission and the result polls of one extraction do.
OcrOutcomes ==
    [kind : {"request_error", "poll_request_error", "failed", "timeout"}, lines : {<<>>}]
        \cup [kind : {"succeeded"}, lines : OcrLines]

\* _parse_ocr_result(result)
_parse_ocr_result(lines) ==
    [extracted_text |-> Join(<<"\n">>, lines), lines_count |-> Len(lines)]

\* Exception leaving _get_ocr_results, NoExc when it returns.
_get_ocr_results_exc(ocr) ==
    CASE ocr.kind = "poll_request_error" ->
            Raise("Exception", <<"Error al obtener resultados OCR: ", "RequestException">>)
      [] ocr.kind = "failed" -> Raise("Exception", <<"El analisis OCR fallo">>)
      [] ocr.kind = "timeout" -> Raise("Exception", <<"Timeout esperando resultados de OCR">>)
      [] OTHER -> NoExc

\* What one GET of the result endpoint yields inside _get_ocr_results: a request error
\* (transport, timeout of the request, HTTP error status) or a body with a status;
\* "running" stands for every status other than 'succeeded' and 'failed'.
PollResponses ==
    [kind : {"request_error", "failed", "running"}, lines : {<<>>}]
        \cup [kind : {"succeeded"}, lines : OcrLines]

NoResponse == [kind |-> "none", lines |-> <<>>]

max_attempts == 30

\* The loop of _get_ocr_results before its first test: attempt = 0.
PollStart ==
    [pc |-> "loop", attempt |-> 0, polls |-> 0, last |-> NoResponse, exc |-> NoExc,
     value |-> _parse_ocr_result(<<>>)]

\* _get_ocr_results_pass with a 'failed' status treated like a status still running.
_get_ocr_results_pass_retries_failed(p, resp) ==
    LET q == [p EXCEPT !.polls = @ + 1, !.last = resp]
    IN  CASE resp.kind = "request_error" ->
                [q EXCEPT !.pc = "raised",
                          !.exc = _get_ocr_results_exc([kind |-> "poll_request_error",
                                                        lines |-> <<>>])]
          [] resp.kind = "succeeded" ->
                [q EXCEPT !.pc = "returned", !.value = _parse_ocr_result(resp.lines)]
          [] OTHER -> [q EXCEPT !.attempt = @ + 1]

\* One pass of the body of `while attempt < max_attempts` in _get_ocr_results.
_get_ocr_results_pass(p, resp) ==
    LET q == [p EXCEPT !.polls = @ + 1, !.last = resp]
    IN  CASE resp.kind = "request_error" ->
                [q EXCEPT !.pc = "raised",
                          !.exc = _get_ocr_results_exc([kind |-> "poll_request_error",
                                                        lines |-> <<>>])]
          [] resp.kind = "succeeded" ->
                [q EXCEPT !.pc = "returned", !.value = _parse_ocr_result(resp.lines)]
          [] resp.kind = "failed" ->
                [q EXCEPT !.pc = "raised",
                          !.exc = _get_ocr_results_exc([kind |-> "failed", lines |-> <<>>])]
          [] OTHER -> [q EXCEPT !.attempt = @ + 1]

\* The statement after the loop of _get_ocr_results.
_get_ocr_results_timeout(p) ==
    [p EXCEPT !.pc = "raised",
              !.exc = _get_ocr_results_exc([kind |-> "timeout", lines |-> <<>>])]

\* extract_text_from_url(file_url): [exc, value]
extract_text_from_url(file_url, ocr) ==
    LET none == _parse_ocr_result(<<>>)
    IN  IF ocr.kind = "request_error"
        THEN [exc |-> Raise("Exception",
                        <<"Error al procesar documento con Azure Vision: ", "RequestException">>),
              value |-> none]
        ELSE IF _get_ocr_results_exc(ocr) # NoExc
        THEN [exc |-> Raise("Exception",
                        <<"Error inesperado en OCR: ">> \o _get_ocr_results_exc(ocr).msg),
              value |-> none]
        ELSE [exc |-> NoExc, value |-> _parse_ocr_result(ocr.lines)]

----------------------------------------------------------------------------
(* services/ai_classification_service.py *)

Desconocido == "Desconocido"
CedulaFrontal == "Cedula de Identidad CL (Frontal)"
CedulaReverso == "Cedula de Identidad CL (Reverso)"

DocumentTypes == {Desconocido, CedulaFrontal, CedulaReverso}

\* Confidences a classification may report, in hundredths.
Confidences == {0, 69, 70, 95}

\* JSON objects a classification response may hold.  Values are of the types the
\* prompt asks for: document_type a string, confidence a number.
ClassificationJson ==
    {EmptyDict}
        \cup { [k \in {"document_type", "confidence"} |->
                    IF k = "document_type" THEN t ELSE c] :
               t \in DocumentTypes, c \in Confidences }

rut_ == Str(<<"1", ".", "2", "-", "9">>)
juan == Str(<<"J", "u", "a", "n">>)
perez == Str(<<"P", "e", "r", "e", "z">>)
juan_perez == Str(<<"J", "u", "a", "n", " ", "P", "e", "r", "e", "z">>)
fecha == Str(<<"2", "0", "3", "0">>)

\* JSON objects an extraction response may hold.
ExtractionJson ==
    { EmptyDict,
      [k \in {"rut", "nombre", "apellido_paterno"} |->
            CASE k = "rut" -> rut_ [] k = "nombre" -> juan [] OTHER -> perez],
      [k \in {"nombre"} |-> juan],
      [k \in {"rut"} |-> rut_],
      [k \in {"numero_documento", "nombre_completo", "fecha_vencimiento"} |->
            CASE k = "numero_documento" -> rut_ [] k = "nombre_completo" -> juan_perez
              [] OTHER -> fecha] }

\* What one chat-completion call does: a transport failure, a reply that does not
\* start with a brace, a reply that starts with one and is not JSON, or JSON.
AiOutcomes(jsons) ==
    [kind : {"transport_error", "not_brace", "bad_json"}, json : {EmptyDict}]
        \cup [kind : {"json"}, json : jsons]

\* Reply texts of the model, as characters: the longest has MaxReply of them.
MaxReply == 3

ReplyChars == {" ", "{", "}", "1", "x"}

ReplyTexts == UNION {[1..n -> ReplyChars] : n \in 0..MaxReply}

\* json.loads(text) succeeds.  Over ReplyChars the JSON values are the numbers 1, 11,
\* ... and the empty object, with white space around them and inside the object.
ValidJson(text) ==
    LET t == Strip(text)
    IN  /\ t # <<>>
        /\ \/ \A i \in 1..Len(t) : t[i] = "1"
           \/ /\ Len(t) >= 2
              /\ t[1] = "{"
              /\ t[Len(t)] = "}"
              /\ \A i \in 2..(Len(t) - 1) : t[i] = " "

\* response.strip().startswith('{')
StartsWithBrace(text) == Strip(text) # <<>> /\ Strip(text)[1] = "{"

\* What a call whose HTTP exchange succeeded does, from the reply text it got: the
\* test on the first character, then json.loads.
AiReply(text) ==
    IF ~StartsWithBrace(text) THEN [kind |-> "not_brace", json |-> EmptyDict]
    ELSE IF ~ValidJson(text) THEN [kind |-> "bad_json", json |-> EmptyDict]
    ELSE [kind |-> "json", json |-> EmptyDict]

AiTransportError == [kind |-> "transport_error", json |-> EmptyDict]

\* _parse_classification_response(response)
_parse_classification_response(ai) ==
    IF ai.kind = "json" THEN ai.json
    ELSE [k \in {"document_type", "confidence"} |->
            IF k = "document_type" THEN Desconocido ELSE 0]

\* _parse_extraction_response(response)
_parse_extraction_response(ai) ==
    IF ai.kind = "json" THEN ai.json ELSE EmptyDict

\* classify_document asking the backend again when the reply was not JSON.
classify_document_retries(ai) ==
    IF ai.kind = "transport_error"
    THEN [exc |-> Raise("Exception",
                    <<"Error en clasificacion de documento: ", "RequestException">>),
          value |-> EmptyDict, posts |-> 1]
    ELSE [exc |-> NoExc, value |-> _parse_classification_response(ai),
          posts |-> IF ai.kind = "json" THEN 1 ELSE 2]

\* classify_document(extracted_text): [exc, value, posts]; posts counts the requests
\* _call_ai_api sent.
classify_document(ai) ==
    IF ai.kind = "transport_error"
    THEN [exc |-> Raise("Exception",
                    <<"Error en clasificacion de documento: ", "RequestException">>),
          value |-> EmptyDict, posts |-> 1]
    ELSE [exc |-> NoExc, value |-> _parse_classification_response(ai), posts |-> 1]

\* extract_structured_data(extracted_text, document_type): [exc, value, posts]
extract_structured_data(ai) ==
    IF ai.kind = "transport_error"
    THEN [exc |-> Raise("Exception",
                    <<"Error en extraccion de datos: ", "RequestException">>),
          value |-> EmptyDict, posts |-> 1]
    ELSE [exc |-> NoExc, value |-> _parse_extraction_response(ai), posts |-> 1]

----------------------------------------------------------------------------
(* services/boostr_service.py *)

BoostrResult(valid, confidence, details) ==
    [valid |-> valid, confidence |-> confidence, details |-> details, source |-> "boostr"]

ErrorDetails(e) == [k \in {"error"} |-> e]

\* JSON bodies of a 200 response.  Values are of the types of the API's contract:
\* valid a boolean, confidence a number, details an object.
BoostrBodies ==
    { EmptyDict,
      [k \in {"valid", "confidence"} |-> IF k = "valid" THEN TRUE ELSE 90],
      [k \in {"valid", "confidence"} |-> IF k = "valid" THEN FALSE ELSE 10] }

\* What the POST to the identity API does: a transport failure or a response.
HttpOutcomes ==
    [status : {"transport", "404", "500"}, body : {EmptyDict}]
        \cup [status : {"200"}, body : BoostrBodies]

RECURSIVE Remove(_, _)
\* str.replace(c, '')
Remove(s, c) ==
    IF s = <<>> THEN <<>>
    ELSE IF Head(s) = c THEN Remove(Tail(s), c)
    ELSE <<Head(s)>> \o Remove(Tail(s), c)

\* validate_rut with status 404 handled like the other error statuses.
validate_rut_404_raises(rut, nombre, fecha_nacimiento, http) ==
    LET clean_rut == Remove(Remove(rut.s, "."), "-")
        payload == [rut |-> clean_rut, nombre |-> nombre.s]
        none == BoostrResult(FALSE, 0, EmptyDict)
    IN  IF http.status = "200"
        THEN [exc |-> NoExc,
              value |-> BoostrResult(Get(http.body, "valid", FALSE),
                                     Get(http.body, "confidence", 0),
                                     Get(http.body, "details", EmptyDict)),
              payload |-> payload]
        ELSE IF http.status = "transport"
        THEN [exc |-> Raise("Exception", <<"Error conectando con Boostr API: ", "RequestException">>),
              value |-> none, payload |-> payload]
        ELSE [exc |-> Raise("Exception",
                        <<"Error inesperado en validacion Boostr: ", "Boostr API error: ",
                          http.status, " - ">>),
              value |-> none, payload |-> payload]

\* validate_rut(rut, nombre, fecha_nacimiento): [exc, value, payload]
validate_rut(rut, nombre, fecha_nacimiento, http) ==
    LET clean_rut == Remove(Remove(rut.s, "."), "-")
        payload == [rut |-> clean_rut, nombre |-> nombre.s]
        none == BoostrResult(FALSE, 0, EmptyDict)
    IN  IF http.status = "200"
        THEN [exc |-> NoExc,
              value |-> BoostrResult(Get(http.body, "valid", FALSE),
                                     Get(http.body, "confidence", 0),
                                     Get(http.body, "details", EmptyDict)),
              payload |-> payload]
        ELSE IF http.status = "404"
        THEN [exc |-> NoExc,
              value |-> BoostrResult(FALSE, 0, ErrorDetails("RUT no encontrado en base de datos")),
              payload |-> payload]
        ELSE IF http.status = "transport"
        THEN [exc |-> Raise("Exception", <<"Error conectando con Boostr API: ", "RequestException">>),
              value |-> none, payload |-> payload]
        ELSE [exc |-> Raise("Exception",
                        <<"Error inesperado en validacion Boostr: ", "Boostr API error: ",
                          http.status, " - ">>),
              value |-> none, payload |-> payload]

\* _build_full_name looking at the parts before the joined field.
_build_full_name_parts_first(extracted_data) ==
    LET empty == Str(<<>>)
        all == << Get(extracted_data, "nombre", empty),
                  Get(extracted_data, "apellido_paterno", empty),
                  Get(extracted_data, "apellido_materno", empty) >>
        parts == SelectSeq(all, Truthy)
    IN  IF parts # <<>>
        THEN Str(Join(<<" ">>, [i \in 1..Len(parts) |-> parts[i].s]))
        ELSE Get(extracted_data, "nombre_completo", None)

\* _build_full_name(extracted_data)
_build_full_name(extracted_data) ==
    IF "nombre_completo" \in DOMAIN extracted_data THEN extracted_data["nombre_completo"]
    ELSE LET empty == Str(<<>>)
             all == << Get(extracted_data, "nombre", empty),
                       Get(extracted_data, "apellido_paterno", empty),
                       Get(extracted_data, "apellido_materno", empty) >>
             parts == SelectSeq(all, Truthy)
         IN  IF parts # <<>>
             THEN Str(Join(<<" ">>, [i \in 1..Len(parts) |-> parts[i].s]))
             ELSE None

\* validate_from_extracted_data(extracted_data): [exc, value, posted, payload]; posted
\* tells whether the request to the identity API was made, payload what it carried.
\* validate_from_extracted_data that asks the provider without a name.
validate_from_extracted_data_without_name(extracted_data, http) ==
    LET first == Get(extracted_data, "rut", None)
        rut == IF Truthy(first) THEN first ELSE Get(extracted_data, "numero_documento", None)
        nombre_completo == _build_full_name(extracted_data)
        fecha_nacimiento == Get(extracted_data, "fecha_nacimiento", None)
        Synthetic(e) == [exc |-> NoExc, value |-> BoostrResult(FALSE, 0, ErrorDetails(e)),
                         posted |-> FALSE, payload |-> EmptyDict]
    IN  IF ~Truthy(rut) THEN Synthetic("RUT no encontrado en documento")
        ELSE LET r == validate_rut(rut, nombre_completo, fecha_nacimiento, http)
             IN  [exc |-> IF r.exc = NoExc THEN NoExc
                          ELSE Raise("Exception",
                                     <<"Error validando datos extraidos: ">> \o r.exc.msg),
                  value |-> r.value, posted |-> TRUE, payload |-> r.payload]

validate_from_extracted_data(extracted_data, http) ==
    LET first == Get(extracted_data, "rut", None)
        rut == IF Truthy(first) THEN first ELSE Get(extracted_data, "numero_documento", None)
        nombre_completo == _build_full_name(extracted_data)
        fecha_nacimiento == Get(extracted_data, "fecha_nacimiento", None)
        Synthetic(e) == [exc |-> NoExc, value |-> BoostrResult(FALSE, 0, ErrorDetails(e)),
                         posted |-> FALSE, payload |-> EmptyDict]
    IN  IF ~Truthy(rut) THEN Synthetic("RUT no encontrado en documento")
        ELSE IF ~Truthy(nombre_completo) THEN Synthetic("Nombre no encontrado en documento")
        ELSE LET r == validate_rut(rut, nombre_completo, fecha_nacimiento, http)
             IN  [exc |-> IF r.exc = NoExc THEN NoExc
                          ELSE Raise("Exception",
                                     <<"Error validando datos extraidos: ">> \o r.exc.msg),
                  value |-> r.value, posted |-> TRUE, payload |-> r.payload]

----------------------------------------------------------------------------
(* services/document_content_validator.py *)

\* sub in s
Contains(s, sub) ==
    \E i \in 0..(Len(s) - Len(sub)) : SubSeq(s, i + 1, i + Len(sub)) = sub

RECURSIVE Without(_, _)
\* re.sub('[' + chars + ']', '', s)
Without(s, chars) ==
    IF s = <<>> THEN <<>>
    ELSE IF Head(s) \in chars THEN Without(Tail(s), chars)
    ELSE <<Head(s)>> \o Without(Tail(s), chars)

RECURSIVE SplitFrom(_, _)
SplitFrom(s, word) ==
    IF s = <<>> THEN IF word = <<>> THEN <<>> ELSE <<word>>
    ELSE IF Head(s) \in Whitespace
         THEN (IF word = <<>> THEN <<>> ELSE <<word>>) \o SplitFrom(Tail(s), <<>>)
         ELSE SplitFrom(Tail(s), Append(word, Head(s)))

\* str.split(): the words between runs of whitespace
Split(s) == SplitFrom(s, <<>>)

\* filter(None, parts) of strings and None
FilterNone(parts) == SelectSeq(parts, Truthy)

\* set(words)
ToSet(words) == {words[i] : i \in 1..Len(words)}

\* A float that is a quotient of two lengths, or 0.0
Float(num, den) == [num |-> num, den |-> den]
FloatEq(a, b) == a.num * b.den = b.num * a.den

\* a > hundredths / 100
FloatGt(a, hundredths) == 100 * a.num > hundredths * a.den

\* a >= hundredths / 100
FloatGe(a, hundredths) == 100 * a.num >= hundredths * a.den

cedula == <<"c", "e", "d", "u", "l", "a">>
cedula_acute == <<"c", "e'", "d", "u", "l", "a">>
identidad == <<"i", "d", "e", "n", "t", "i", "d", "a", "d">>
frontal == <<"f", "r", "o", "n", "t", "a", "l">>
reverso == <<"r", "e", "v", "e", "r", "s", "o">>
licencia == <<"l", "i", "c", "e", "n", "c", "i", "a">>
pasaporte == <<"p", "a", "s", "a", "p", "o", "r", "t", "e">>

_types_match(expected, detected) ==
    LET expected_lower == Lower(expected.s)
        detected_lower == Lower(detected.s)
    IN  IF expected_lower = detected_lower THEN TRUE
        ELSE IF /\ Contains(expected_lower, cedula) \/ Contains(expected_lower, cedula_acute)
                /\ \/ Contains(detected_lower, cedula)
                   \/ Contains(detected_lower, cedula_acute)
                   \/ Contains(detected_lower, identidad)
        THEN IF Contains(expected_lower, frontal) /\ Contains(detected_lower, reverso)
             THEN FALSE
             ELSE IF Contains(expected_lower, reverso) /\ Contains(detected_lower, frontal)
             THEN FALSE
             ELSE TRUE
        ELSE IF Contains(expected_lower, licencia) /\ Contains(detected_lower, licencia)
        THEN TRUE
        ELSE IF Contains(expected_lower, pasaporte) /\ Contains(detected_lower, pasaporte)
        THEN TRUE
        ELSE FALSE

\* '{v}' in an f-string: the characters of a str
Fmt(v) == IF IsStr(v) THEN v.s ELSE <<"None">>

\* An observation: its layer, its razon and message (the literal fragments and the
\* characters of the formatted values, in order), and the keys some checks add
Observation(capa, razon, message, extra) ==
    [capa |-> capa, razon |-> razon, message |-> message, extra |-> extra]

\* A normalization that keeps the case of the letters
_normalize_rut_keeps_case(rut) ==
    IF ~Truthy(rut) THEN <<>>
    ELSE Without(rut.s, {".", "-"} \cup Whitespace)

_normalize_rut(rut) ==
    IF ~Truthy(rut) THEN <<>>
    ELSE Lower(Without(rut.s, {".", "-"} \cup Whitespace))

_validate_rut(extracted_rut, expected_rut) ==
    LET normalized_extracted == _normalize_rut(extracted_rut)
        normalized_expected == _normalize_rut(expected_rut)
    IN  IF normalized_extracted = normalized_expected
        THEN [ok |-> TRUE,
              obs |-> Observation("success",
                          <<"RUT verificado correctamente: ">> \o Fmt(expected_rut),
                          <<"RUT verified successfully">>, EmptyDict)]
        ELSE [ok |-> FALSE,
              obs |-> Observation("critical",
                          <<"RUT no coincide. Esperado: ">> \o Fmt(expected_rut)
                              \o <<", Encontrado: ">> \o Fmt(extracted_rut),
                          <<"RUT mismatch">>,
                          [expected |-> expected_rut, found |-> extracted_rut])]

ReplaceAccent(c) ==
    CASE c = "a'" -> "a" [] c = "e'" -> "e" [] c = "i'" -> "i" [] c = "o'" -> "o"
      [] c = "u'" -> "u" [] c = "a:" -> "a" [] c = "e:" -> "e" [] c = "i:" -> "i"
      [] c = "o:" -> "o" [] c = "u:" -> "u" [] c = "n~" -> "n"
      [] OTHER -> c

\* Gives the characters of the normalized name
_normalize_name(name) ==
    IF ~Truthy(name) THEN <<>>
    ELSE LET normalized == [i \in 1..Len(name.s) |-> ReplaceAccent(Lower(name.s)[i])]
         IN  Join(<<" ">>, Split(normalized))

\* The share of the places at which the two names have the same word
_calculate_name_similarity_by_position(name1, name2) ==
    IF name1 = <<>> \/ name2 = <<>> THEN Float(0, 1)
    ELSE LET words1 == Split(name1)
             words2 == Split(name2)
             shorter == IF Len(words1) < Len(words2) THEN Len(words1) ELSE Len(words2)
             longer == IF Len(words1) < Len(words2) THEN Len(words2) ELSE Len(words1)
         IN  IF longer = 0 THEN Float(0, 1)
             ELSE Float(Cardinality({i \in 1..shorter : words1[i] = words2[i]}), longer)

\* name1 and name2 are the characters of two normalized names
_calculate_name_similarity(name1, name2) ==
    IF name1 = <<>> \/ name2 = <<>> THEN Float(0, 1)
    ELSE LET words1 == ToSet(Split(name1))
             words2 == ToSet(Split(name2))
         IN  IF words1 = {} \/ words2 = {} THEN Float(0, 1)
             ELSE LET intersection == words1 \cap words2
                      union == words1 \cup words2
                  IN  IF union # {} THEN Float(Cardinality(intersection), Cardinality(union))
                      ELSE Float(0, 1)

\* similarity >= 0.7, in hundredths
NameThreshold == 70

\* ' '.join(filter(None, parts)).strip()
JoinParts(parts) ==
    LET strs == FilterNone(parts)
    IN  Str(Strip(Join(<<" ">>, [i \in 1..Len(strs) |-> strs[i].s])))

_validate_name(extracted_nombre, extracted_apellido_paterno, extracted_apellido_materno, expected_full_name) ==
    LET extracted_parts ==
            <<extracted_nombre, extracted_apellido_paterno, extracted_apellido_materno>>
        extracted_full == JoinParts(extracted_parts)
        extracted_normalized == _normalize_name(extracted_full)
        expected_normalized == _normalize_name(expected_full_name)
        similarity == _calculate_name_similarity(extracted_normalized, expected_normalized)
    IN  IF FloatGe(similarity, NameThreshold)
        THEN [ok |-> TRUE,
              obs |-> Observation("success",
                          <<"Nombre verificado: ">> \o Fmt(expected_full_name),
                          <<"Name verified successfully">>, [similarity |-> similarity])]
        ELSE [ok |-> FALSE,
              obs |-> Observation("critical",
                          <<"Nombre no coincide. Esperado: ">> \o Fmt(expected_full_name)
                              \o <<", Encontrado: ">> \o Fmt(extracted_full),
                          <<"Name mismatch">>,
                          [expected |-> expected_full_name, found |-> extracted_full,
                           similarity |-> similarity])]

Digits == {"0", "1", "2", "3", "4", "5", "6", "7", "8", "9"}

DigitValue(c) ==
    CASE c = "0" -> 0 [] c = "1" -> 1 [] c = "2" -> 2 [] c = "3" -> 3 [] c = "4" -> 4
      [] c = "5" -> 5 [] c = "6" -> 6 [] c = "7" -> 7 [] c = "8" -> 8 [] c = "9" -> 9

RECURSIVE ToInt(_)
\* int(s) of a string of digits
ToInt(s) == IF s = <<>> THEN 0 ELSE 10 * ToInt(SubSeq(s, 1, Len(s) - 1)) + DigitValue(s[Len(s)])

IsDigits(s) == \A i \in 1..Len(s) : s[i] \in Digits

RECURSIVE FieldsFrom(_, _, _)
FieldsFrom(s, sep, field) ==
    IF s = <<>> THEN <<field>>
    ELSE IF Head(s) = sep THEN <<field>> \o FieldsFrom(Tail(s), sep, <<>>)
    ELSE FieldsFrom(Tail(s), sep, Append(field, Head(s)))

\* The pieces of s between the occurrences of the character sep
Fields(s, sep) == FieldsFrom(s, sep, <<>>)

NoField == 0 - 1

\* What the directive %Y of strptime reads in a field: four digits
DirectiveY(f) == IF Len(f) = 4 /\ IsDigits(f) THEN ToInt(f) ELSE NoField

\* %m: 1[0-2]|0[1-9]|[1-9]
DirectiveM(f) ==
    IF Len(f) \in {1, 2} /\ IsDigits(f) /\ ToInt(f) \in 1..12 THEN ToInt(f) ELSE NoField

\* %d: 3[0-1]|[1-2]\d|0[1-9]|[1-9]| [1-9]
DirectiveD(f) ==
    IF Len(f) \in {1, 2} /\ IsDigits(f) /\ ToInt(f) \in 1..31 THEN ToInt(f)
    ELSE IF Len(f) = 2 /\ f[1] = " " /\ f[2] \in Digits \ {"0"} THEN DigitValue(f[2])
    ELSE NoField

IsLeap(y) == (y % 4 = 0 /\ y % 100 # 0) \/ y % 400 = 0

DaysInMonth(y, m) ==
    IF m = 2 THEN (IF IsLeap(y) THEN 29 ELSE 28)
    ELSE IF m \in {4, 6, 9, 11} THEN 30 ELSE 31

NoDate == [year |-> 0, month |-> 0, day |-> 0]

\* datetime(year, month, day), or NoDate where it raises ValueError
Date(y, m, d) ==
    IF y = NoField \/ m = NoField \/ d = NoField THEN NoDate
    ELSE IF y < 1 \/ d > DaysInMonth(y, m) THEN NoDate
    ELSE [year |-> y, month |-> m, day |-> d]

formats_to_try ==
    << [sep |-> "-", year_first |-> TRUE],      \* %Y-%m-%d
       [sep |-> "-", year_first |-> FALSE],     \* %d-%m-%Y
       [sep |-> "/", year_first |-> FALSE],     \* %d/%m/%Y
       [sep |-> "/", year_first |-> TRUE] >>    \* %Y/%m/%d

\* datetime.strptime(s, fmt), or NoDate where it raises ValueError
strptime(s, fmt) ==
    LET f == Fields(s, fmt.sep)
    IN  IF Len(f) # 3 THEN NoDate
        ELSE IF fmt.year_first THEN Date(DirectiveY(f[1]), DirectiveM(f[2]), DirectiveD(f[3]))
        ELSE Date(DirectiveY(f[3]), DirectiveM(f[2]), DirectiveD(f[1]))

RECURSIVE TryFormats(_, _)
\* The loop over formats_to_try from the i-th format on: the first date that parses
TryFormats(s, i) ==
    IF i > Len(formats_to_try) THEN NoDate
    ELSE IF strptime(s, formats_to_try[i]) # NoDate THEN strptime(s, formats_to_try[i])
    ELSE TryFormats(s, i + 1)

\* A comparison of the dates alone
Before_by_date(date, now) ==
    \/ date.year < now.year
    \/ date.year = now.year /\ date.month < now.month
    \/ date.year = now.year /\ date.month = now.month /\ date.day < now.day

\* expiry_date < datetime.now(): a parsed date is its midnight; now is a date and
\* the time elapsed since its midnight
Before(date, now) ==
    \/ date.year < now.year
    \/ date.year = now.year /\ date.month < now.month
    \/ date.year = now.year /\ date.month = now.month /\ date.day < now.day
    \/ date.year = now.year /\ date.month = now.month /\ date.day = now.day /\ 0 < now.elapsed

_validate_expiry(expiry_date_str, now) ==
    IF ~IsStr(expiry_date_str)
    THEN [expired |-> FALSE,
          obs |-> Observation("warning",
                      <<"Error validando fecha de vencimiento: ", "TypeError">>,
                      <<"Error validating expiry date">>, EmptyDict)]
    ELSE LET expiry_date == TryFormats(expiry_date_str.s, 1)
         IN  IF expiry_date = NoDate
             THEN [expired |-> FALSE,
                   obs |-> Observation("warning",
                               <<"No se pudo verificar fecha de vencimiento: ">> \o Fmt(expiry_date_str),
                               <<"Could not verify expiry date">>, EmptyDict)]
             ELSE IF Before(expiry_date, now)
             THEN [expired |-> TRUE,
                   obs |-> Observation("critical",
                               <<"Documento vencido. Fecha de vencimiento: ">> \o Fmt(expiry_date_str),
                               <<"Document expired">>, [expiry_date |-> expiry_date_str])]
             ELSE [expired |-> FALSE,
                   obs |-> Observation("success",
                               <<"Documento vigente hasta: ">> \o Fmt(expiry_date_str),
                               <<"Document valid">>, [expiry_date |-> expiry_date_str])]

\* The three locals of validate_document_content
Tally(observations, critical_errors, warnings) ==
    [observations |-> observations, critical_errors |-> critical_errors, warnings |-> warnings]

\* observations.append(obs); critical_errors += 1
Critical(t, obs) ==
    [t EXCEPT !.observations = Append(@, obs), !.critical_errors = @ + 1]

CheckType(t, expected_document_type, document_type) ==
    IF Truthy(expected_document_type) /\ Truthy(document_type)
    THEN IF ~_types_match(expected_document_type, document_type)
         THEN Critical(t, Observation("critical",
                              <<"Tipo de documento incorrecto. Esperado: ">>
                                \o Fmt(expected_document_type) \o <<", Encontrado: ">>
                                \o Fmt(document_type),
                              <<"Document type mismatch">>, EmptyDict))
         ELSE t
    ELSE t

CheckRut(t, extracted_data, applicant_data) ==
    IF Truthy(Get(applicant_data, "rut", None)) /\ Truthy(Get(extracted_data, "rut", None))
    THEN LET r == _validate_rut(extracted_data["rut"], applicant_data["rut"])
         IN  IF ~r.ok THEN Critical(t, r.obs) ELSE t
    ELSE t

CheckName(t, extracted_data, applicant_data) ==
    IF Truthy(Get(applicant_data, "nombre", None)) /\ Truthy(Get(extracted_data, "nombre", None))
    THEN LET r == _validate_name(Get(extracted_data, "nombre", Str(<<>>)),
                                 Get(extracted_data, "apellido_paterno", Str(<<>>)),
                                 Get(extracted_data, "apellido_materno", Str(<<>>)),
                                 applicant_data["nombre"])
         IN  IF ~r.ok THEN Critical(t, r.obs) ELSE t
    ELSE t

CheckExpiry(t, extracted_data, now) ==
    IF Truthy(Get(extracted_data, "fecha_vencimiento", None))
    THEN LET r == _validate_expiry(extracted_data["fecha_vencimiento"], now)
         IN  IF r.expired THEN Critical(t, r.obs) ELSE t
    ELSE t

\* The final decision and observations.insert(0, summary)
Decide(t) ==
    IF t.critical_errors > 0
    THEN [decision |-> "REJECTED",
          observations |->
              <<Observation("critical",
                    <<"Documento rechazado por ", ToString(t.critical_errors), " error(es) critico(s)">>,
                    <<"Document rejected due to ", ToString(t.critical_errors), " critical error(s)">>,
                    EmptyDict)>> \o t.observations]
    ELSE IF t.warnings > 0
    THEN [decision |-> "MANUAL_REVIEW",
          observations |->
              <<Observation("warning",
                    <<"Revision manual requerida (", ToString(t.warnings), " advertencia(s))">>,
                    <<"Manual review required">>, EmptyDict)>> \o t.observations]
    ELSE [decision |-> "APPROVED",
          observations |->
              <<Observation("success",
                    <<"Documento aprobado. Todos los datos coinciden correctamente.">>,
                    <<"Document approved. All data matches correctly.">>,
                    EmptyDict)>> \o t.observations]

\* validate_document_content with the expiry check before the name check.
validate_document_content_expiry_before_name(extracted_data, applicant_data, expected_document_type, document_type, now) ==
    LET t0 == Tally(<<>>, 0, 0)
        t1 == CheckType(t0, expected_document_type, document_type)
        t2 == CheckRut(t1, extracted_data, applicant_data)
        t3 == CheckExpiry(t2, extracted_data, now)
        t4 == CheckName(t3, extracted_data, applicant_data)
    IN  Decide(t4)

\* now is what datetime.now() gives during the call
validate_document_content(extracted_data, applicant_data, expected_document_type, document_type, now) ==
    LET t0 == Tally(<<>>, 0, 0)
        t1 == CheckType(t0, expected_document_type, document_type)
        t2 == CheckRut(t1, extracted_data, applicant_data)
        t3 == CheckName(t2, extracted_data, applicant_data)
        t4 == CheckExpiry(t3, extracted_data, now)
    IN  Decide(t4)

----------------------------------------------------------------------------
(* services/document_processing_pipeline.py *)

\* The confidence threshold of the business rules (0.7), in hundredths.
MinConfidence == 70

\* f"{x:.2f}" of a confidence in hundredths
Format2f(c) == <<ToString(c \div 100), ".", ToString((c % 100) \div 10), ToString(c % 10)>>

Reason(rule, reason) == [rule |-> rule, reason |-> reason]

\* contexto["boostr_validation"] before the identity stage stores it (key absent)
NoBoostrValidation == [valid |-> FALSE, confidence |-> 0, details |-> EmptyDict, source |-> "absent"]

_create_processing_context(owner, doc) ==
    [ owner_user_name |-> owner,
      document |-> doc,
      processing_status |-> "PENDING",
      final_decision |-> "MANUAL_REVIEW",
      extracted_text |-> <<>>,
      document_type |-> Desconocido,
      structured_data |-> EmptyDict,
      rejection_reasons |-> <<>>,
      processing_log |-> <<>>,
      total_cost_usd |-> 0,
      confidence_score |-> 0,
      boostr_validation |-> NoBoostrValidation ]

\* One progress-notification attempt; delivered tells whether the sink accepted it.
\* A failed attempt is logged and swallowed.
_notify_progress(ctx, phase, delivered) ==
    [phase |-> phase, processingStatus |-> ctx.processing_status, delivered |-> delivered]

\* _create_processing_context with the two lists made once and handed to every context.
_create_processing_context_on_heap_shared(heap, owner, doc) ==
    LET v == _create_processing_context(owner, doc)
        h == IF heap = <<>> THEN <<v.rejection_reasons, v.processing_log>> ELSE heap
    IN  [heap |-> Append(h, [v EXCEPT !.rejection_reasons = 1, !.processing_log = 2]),
         ref |-> Len(h) + 1]

\* _create_processing_context as it allocates: the two list displays and the dict
\* display each make a new object; the dict holds the lists by reference.  heap is
\* the sequence of the objects made so far, a reference is an index into it.
_create_processing_context_on_heap(heap, owner, doc) ==
    LET v == _create_processing_context(owner, doc)
        a == Len(heap)
    IN  [heap |-> heap \o <<v.rejection_reasons, v.processing_log,
                            [v EXCEPT !.rejection_reasons = a + 1, !.processing_log = a + 2]>>,
         ref |-> a + 3]

\* The context a reference leads to, its lists read through their references.
Deref(heap, ref) ==
    [heap[ref] EXCEPT !.rejection_reasons = heap[@], !.processing_log = heap[@]]

\* The objects after a stage left the context at ref as v: the lists are changed in
\* place (append), the other keys are assigned in the dict.
Store(heap, ref, v) ==
    LET d == heap[ref]
    IN  [heap EXCEPT ![d.rejection_reasons] = v.rejection_reasons,
                     ![d.processing_log] = v.processing_log,
                     ![ref] = [v EXCEPT !.rejection_reasons = d.rejection_reasons,
                                        !.processing_log = d.processing_log]]

\* The exception _validate_document raises, NoExc when the document is valid.
_validate_document(doc, head, size) ==
    LET v == validate_document(doc, head, size)
    IN  IF v.exc # NoExc THEN v.exc
        ELSE IF ~v.is_valid
        THEN Raise("DocumentValidationException", <<"Documento no valido: ">> \o v.message)
        ELSE NoExc

\* _execute_ocr(contexto): [ctx, exc]
_execute_ocr(ctx, ocr) ==
    IF "file_url" \notin DOMAIN ctx.document
    THEN [ctx |-> ctx, exc |-> Raise("Exception", <<"Error en OCR: ", "'file_url'">>)]
    ELSE LET r == extract_text_from_url(ctx.document["file_url"], ocr)
         IN  IF r.exc # NoExc
             THEN [ctx |-> ctx, exc |-> Raise("Exception", <<"Error en OCR: ">> \o r.exc.msg)]
             ELSE [ctx |-> [ctx EXCEPT
                             !.extracted_text = r.value.extracted_text,
                             !.processing_log = Append(@,
                                 <<"OCR completado - ", ToString(r.value.lines_count),
                                   " lineas extraidas">>)],
                   exc |-> NoExc]

\* _execute_classification_and_extraction calling the field extraction for every type.
_execute_classification_and_extraction_always(ctx, ai_classify, ai_extract) ==
    LET c == classify_document(ai_classify)
        Wrap(e) == Raise("Exception", <<"Error en clasificacion: ">> \o e.msg)
    IN  IF c.exc # NoExc THEN [ctx |-> ctx, exc |-> Wrap(c.exc), extracted |-> FALSE]
        ELSE
        LET ctx1 == [ctx EXCEPT
                        !.document_type = Get(c.value, "document_type", Desconocido),
                        !.confidence_score = Get(c.value, "confidence", 0)]
            x == extract_structured_data(ai_extract)
            ctx2 == [ctx1 EXCEPT !.structured_data = x.value]
        IN  IF x.exc # NoExc
            THEN [ctx |-> ctx1, exc |-> Wrap(x.exc), extracted |-> TRUE]
            ELSE [ctx |-> [ctx2 EXCEPT !.processing_log = Append(@,
                                <<"Clasificacion completada - Tipo: ", ctx2.document_type,
                                  ", Confianza: ">> \o Format2f(ctx2.confidence_score))],
                  exc |-> NoExc, extracted |-> TRUE]

\* _execute_classification_and_extraction(contexto): [ctx, exc, extracted]; extracted
\* tells whether the field extraction was called.
_execute_classification_and_extraction(ctx, ai_classify, ai_extract) ==
    LET c == classify_document(ai_classify)
        Wrap(e) == Raise("Exception", <<"Error en clasificacion: ">> \o e.msg)
    IN  IF c.exc # NoExc THEN [ctx |-> ctx, exc |-> Wrap(c.exc), extracted |-> FALSE]
        ELSE
        LET ctx1 == [ctx EXCEPT
                        !.document_type = Get(c.value, "document_type", Desconocido),
                        !.confidence_score = Get(c.value, "confidence", 0)]
            call == ctx1.document_type # Desconocido
            x == extract_structured_data(ai_extract)
            ctx2 == IF call THEN [ctx1 EXCEPT !.structured_data = x.value] ELSE ctx1
        IN  IF call /\ x.exc # NoExc
            THEN [ctx |-> ctx1, exc |-> Wrap(x.exc), extracted |-> TRUE]
            ELSE [ctx |-> [ctx2 EXCEPT !.processing_log = Append(@,
                                <<"Clasificacion completada - Tipo: ", ctx2.document_type,
                                  ", Confianza: ">> \o Format2f(ctx2.confidence_score))],
                  exc |-> NoExc, extracted |-> call]

\* RuleConfianzaMinima with the decision of the other rule.
RuleConfianzaMinima_rejects(ctx) ==
    IF ctx.confidence_score < MinConfidence
    THEN [ctx EXCEPT
            !.rejection_reasons = Append(@, Reason("Confianza Minima",
                <<"Confianza del documento muy baja: ">> \o Format2f(ctx.confidence_score))),
            !.final_decision = "REJECTED"]
    ELSE ctx

\* RuleConfianzaMinima with the boundary value objected to.
RuleConfianzaMinima_le(ctx) ==
    IF ctx.confidence_score <= MinConfidence
    THEN [ctx EXCEPT
            !.rejection_reasons = Append(@, Reason("Confianza Minima",
                <<"Confianza del documento muy baja: ">> \o Format2f(ctx.confidence_score))),
            !.final_decision = "MANUAL_REVIEW"]
    ELSE ctx

\* The first rule of _execute_business_rules: minimum confidence.
RuleConfianzaMinima(ctx) ==
    IF ctx.confidence_score < MinConfidence
    THEN [ctx EXCEPT
            !.rejection_reasons = Append(@, Reason("Confianza Minima",
                <<"Confianza del documento muy baja: ">> \o Format2f(ctx.confidence_score))),
            !.final_decision = "MANUAL_REVIEW"]
    ELSE ctx

\* The second rule of _execute_business_rules: some text was extracted.
RuleTextoExtraido(ctx) ==
    IF Strip(ctx.extracted_text) = <<>>
    THEN [ctx EXCEPT
            !.rejection_reasons = Append(@, Reason("Texto Extraido",
                <<"No se pudo extraer texto del documento">>)),
            !.final_decision = "REJECTED"]
    ELSE ctx

\* RuleAprobar without its condition.
RuleAprobar_always(ctx) == [ctx EXCEPT !.final_decision = "APPROVED"]

\* The last rule of _execute_business_rules: approve when nothing was objected.
RuleAprobar(ctx) ==
    IF ctx.rejection_reasons = <<>> THEN [ctx EXCEPT !.final_decision = "APPROVED"] ELSE ctx

\* _execute_business_rules with its first two rules in the other order.
_execute_business_rules_swapped(ctx) ==
    LET c == RuleAprobar(RuleConfianzaMinima(RuleTextoExtraido(ctx)))
    IN  [c EXCEPT !.processing_log = Append(@,
            <<"Reglas de negocio aplicadas - Decision: ", c.final_decision>>)]

\* _execute_business_rules without its confidence rule.
_execute_business_rules_no_confidence(ctx) ==
    LET c == RuleAprobar(RuleTextoExtraido(ctx))
    IN  [c EXCEPT !.processing_log = Append(@,
            <<"Reglas de negocio aplicadas - Decision: ", c.final_decision>>)]

\* _execute_business_rules(contexto)
_execute_business_rules(ctx) ==
    LET c == RuleAprobar(RuleTextoExtraido(RuleConfianzaMinima(ctx)))
    IN  [c EXCEPT !.processing_log = Append(@,
            <<"Reglas de negocio aplicadas - Decision: ", c.final_decision>>)]

\* _should_validate_identity_cl taking both sides of the identity card.
_should_validate_identity_cl_any_side(ctx) == ctx.document_type \in {CedulaFrontal, CedulaReverso}

_should_validate_identity_cl(ctx) == ctx.document_type = CedulaFrontal

\* IdentityError with the decision of the try block.
IdentityError_rejects(ctx, e) ==
    [ctx EXCEPT
        !.processing_log = Append(@, <<"Error en validacion Boostr: ">> \o e.msg),
        !.rejection_reasons = Append(@, Reason("Validacion Boostr Error",
            <<"No se pudo validar con Boostr: ">> \o e.msg)),
        !.final_decision = "REJECTED"]

\* IdentityError that keeps only its own reason.
IdentityError_replaces(ctx, e) ==
    [ctx EXCEPT
        !.processing_log = Append(@, <<"Error en validacion Boostr: ">> \o e.msg),
        !.rejection_reasons = <<Reason("Validacion Boostr Error",
            <<"No se pudo validar con Boostr: ">> \o e.msg)>>,
        !.final_decision = "MANUAL_REVIEW"]

\* The except clause of _execute_identity_validation.
IdentityError(ctx, e) ==
    [ctx EXCEPT
        !.processing_log = Append(@, <<"Error en validacion Boostr: ">> \o e.msg),
        !.rejection_reasons = Append(@, Reason("Validacion Boostr Error",
            <<"No se pudo validar con Boostr: ">> \o e.msg)),
        !.final_decision = "MANUAL_REVIEW"]

\* IdentityReported without the assignment of final_decision.
IdentityReported_no_force(ctx, v) ==
    LET c1 == [ctx EXCEPT !.boostr_validation = v]
    IN  IF ~v.valid
        THEN [c1 EXCEPT
                !.rejection_reasons = Append(@, Reason("Validacion Boostr",
                    <<"RUT no valido segun Boostr: ",
                      Get(v.details, "error", "Sin detalles")>>))]
        ELSE c1

\* The try block of _execute_identity_validation once the provider returned v.
IdentityReported(ctx, v) ==
    LET c1 == [ctx EXCEPT !.boostr_validation = v]
        c2 == IF ~v.valid
              THEN [c1 EXCEPT
                      !.rejection_reasons = Append(@, Reason("Validacion Boostr",
                          <<"RUT no valido segun Boostr: ",
                            Get(v.details, "error", "Sin detalles")>>)),
                      !.final_decision = "REJECTED"]
              ELSE c1
    IN  [c2 EXCEPT !.processing_log = Append(@,
            <<"Validacion Boostr completada - Valid: ", ToString(v.valid),
              ", Confidence: ">> \o Format2f(v.confidence))]

\* _execute_identity_validation(contexto): [ctx, posted]
_execute_identity_validation(ctx, http) ==
    LET r == validate_from_extracted_data(ctx.structured_data, http)
    IN  [ctx |-> IF r.exc # NoExc THEN IdentityError(ctx, r.exc) ELSE IdentityReported(ctx, r.value),
         posted |-> r.posted]

\* _handle_validation_error with the decision of _handle_processing_error.
_handle_validation_error_manual_review(ctx, error) ==
    [ctx EXCEPT
        !.processing_status = "FAILED",
        !.final_decision = "MANUAL_REVIEW",
        !.rejection_reasons = Append(@, Reason("Validacion de Documento", error.msg))]

\* _handle_validation_error that appends no reason.
_handle_validation_error_silent(ctx, error) ==
    [ctx EXCEPT
        !.processing_status = "FAILED",
        !.final_decision = "REJECTED"]

_handle_validation_error(ctx, error) ==
    [ctx EXCEPT
        !.processing_status = "FAILED",
        !.final_decision = "REJECTED",
        !.rejection_reasons = Append(@, Reason("Validacion de Documento", error.msg))]

\* _handle_processing_error without the assignment of processing_status.
_handle_processing_error_keeps_status(ctx, error) ==
    [ctx EXCEPT
        !.final_decision = "MANUAL_REVIEW",
        !.rejection_reasons = Append(@, Reason("Error de Procesamiento",
            <<"Error inesperado: ">> \o error.msg))]

\* _handle_processing_error with the decision of _handle_validation_error.
_handle_processing_error_rejects(ctx, error) ==
    [ctx EXCEPT
        !.processing_status = "FAILED",
        !.final_decision = "REJECTED",
        !.rejection_reasons = Append(@, Reason("Error de Procesamiento",
            <<"Error inesperado: ">> \o error.msg))]

\* _handle_processing_error that starts the status over.
_handle_processing_error_resets(ctx, error) ==
    [ctx EXCEPT
        !.processing_status = "PENDING",
        !.final_decision = "MANUAL_REVIEW",
        !.rejection_reasons = Append(@, Reason("Error de Procesamiento",
            <<"Error inesperado: ">> \o error.msg))]

_handle_processing_error(ctx, error) ==
    [ctx EXCEPT
        !.processing_status = "FAILED",
        !.final_decision = "MANUAL_REVIEW",
        !.rejection_reasons = Append(@, Reason("Error de Procesamiento",
            <<"Error inesperado: ">> \o error.msg))]

_extract_expiration_date(structured_data) ==
    IF "fecha_vencimiento" \in DOMAIN structured_data THEN structured_data["fecha_vencimiento"]
    ELSE IF "expiration_date" \in DOMAIN structured_data THEN structured_data["expiration_date"]
    ELSE IF "vencimiento" \in DOMAIN structured_data THEN structured_data["vencimiento"]
    ELSE None

\* The fields ProcessedDocumentResult declares as str without default: the
\* constructor raises a ValidationError unless each is given a str.
ProcessedDocumentResultAccepts(r) ==
    /\ IsStr(r.original_file_name)
    /\ IsStr(r.file_url)
    /\ IsStr(r.owner_user_name)
    /\ r.final_decision \in FinalDecisionStatus
    /\ r.processing_status \in ProcessingStatus

\* _build_final_result(contexto, document): [exc, value]
_build_final_result(ctx, doc) ==
    LET r == [ platform_document_id |-> Get(doc, "platform_document_id", None),
               original_file_name |-> Get(doc, "file_name", None),
               file_url |-> Get(doc, "file_url", None),
               document_type |-> ctx.document_type,
               data_structure |-> ctx.structured_data,
               expiration_date |-> _extract_expiration_date(ctx.structured_data),
               final_decision |-> ctx.final_decision,
               observations |-> ctx.rejection_reasons,
               processing_status |-> ctx.processing_status,
               owner_user_name |-> ctx.owner_user_name,
               classification_method |->
                    IF ctx.document_type # Desconocido THEN "IA" ELSE "UNKNOWN",
               classification_by_ia |-> ctx.document_type,
               total_processing_cost_usd |-> ctx.total_cost_usd ]
    IN  IF ProcessedDocumentResultAccepts(r)
        THEN [exc |-> NoExc, value |-> r]
        ELSE [exc |-> Raise("ValidationError", <<"validation error for ProcessedDocumentResult">>),
              value |-> r]

----------------------------------------------------------------------------
(* process_document, one action per phase of its body *)

FileUrls == {None, Str(<<>>), Str(<<"h", "t", "t", "p", ":", "/", "/", "x">>)}

FileNames ==
    { None, Str(<<"a", ".", "p", "d", "f">>), Str(<<"A", ".", "P", "D", "F">>),
      Str(<<"a", ".", "e", "x", "e">>) }

\* The document descriptors: each key may be absent, null or set.
Documents ==
    UNION { [keys -> FileUrls \cup FileNames] : keys \in SUBSET {"file_url", "file_name"} }

WellFormed(doc) ==
    /\ "file_url" \in DOMAIN doc => doc["file_url"] \in FileUrls
    /\ "file_name" \in DOMAIN doc => doc["file_name"] \in FileNames

Owners == {Str(<<"J", "u", "a", "n">>)}

NoResult == None

\* The part of the state one invocation of process_document owns.
Cur ==
    [ contexto |-> contexto, pc |-> pc, exc |-> exc, calls |-> calls,
      notifications |-> notifications, outcome |-> outcome, result |-> result ]

\* The invocation at the entry of process_document, its context just created.
Entry(owner, doc) ==
    [ contexto |-> _create_processing_context(owner, doc), pc |-> "validate", exc |-> NoExc,
      calls |-> <<>>, notifications |-> <<>>, outcome |-> "running", result |-> NoResult ]

Load(st) ==
    /\ contexto' = st.contexto
    /\ pc' = st.pc
    /\ exc' = st.exc
    /\ calls' = st.calls
    /\ notifications' = st.notifications
    /\ outcome' = st.outcome
    /\ result' = st.result

Inputs == <<owner_user_name, document>>

\* No invocation of process_document is in progress.
NoInvocation ==
    [ contexto |-> EmptyDict, pc |-> "idle", exc |-> NoExc, calls |-> <<>>,
      notifications |-> <<>>, outcome |-> "idle", result |-> NoResult ]

\* The state of the other specifications of this module, at rest in this one.
Others == <<poll, ai_call, twin, pair, service_call>>

NoPoll == [PollStart EXCEPT !.pc = "idle"]

NoAi ==
    [pc |-> "idle", op |-> "classify", transport_ok |-> TRUE, text |-> <<>>,
     out |-> [exc |-> NoExc, value |-> EmptyDict, posts |-> 0]]

NoPair == [heap |-> <<>>, inv |-> <<>>, alone |-> <<>>]

NoCall == [pc |-> "idle", op |-> "none", args |-> <<>>, out |-> <<>>]

OthersIdle ==
    /\ poll = NoPoll
    /\ ai_call = NoAi
    /\ twin = NoInvocation
    /\ pair = NoPair
    /\ service_call = NoCall

Init ==
    /\ owner_user_name \in Owners
    /\ document \in {d \in Documents : WellFormed(d)}
    /\ contexto = Entry(owner_user_name, document).contexto
    /\ pc = Entry(owner_user_name, document).pc
    /\ exc = Entry(owner_user_name, document).exc
    /\ calls = Entry(owner_user_name, document).calls
    /\ notifications = Entry(owner_user_name, document).notifications
    /\ outcome = Entry(owner_user_name, document).outcome
    /\ result = Entry(owner_user_name, document).result
    /\ OthersIdle

\* A phase raised: control moves to the except clauses with the context as mutated.
Throw(st, ctx, e) == [st EXCEPT !.contexto = ctx, !.exc = e, !.pc = "except"]

\* Advance with a notification that lets its failure out into the try block.
Advance_notify_raises(st, ctx, status, phase, delivered, next) ==
    LET c == [ctx EXCEPT !.processing_status = status]
        s1 == [st EXCEPT !.notifications = Append(@, _notify_progress(c, phase, delivered))]
    IN  IF delivered
        THEN [s1 EXCEPT !.contexto = c, !.pc = next, !.exc = NoExc]
        ELSE Throw(s1, c, Raise("Exception", <<"notify_document_update">>))

\* The statement pair that closes a phase: set the status, then notify; the
\* notification attempt is made inside a try block that swallows its failure.
Advance(st, ctx, status, phase, delivered, next) ==
    LET c == [ctx EXCEPT !.processing_status = status]
    IN  [st EXCEPT
            !.contexto = c,
            !.notifications = Append(@, _notify_progress(c, phase, delivered)),
            !.pc = next,
            !.exc = NoExc]

\* Fase 1: validacion previa
ValidateStep(st, doc, head, size, delivered) ==
    LET e == _validate_document(doc, head, size)
        s1 == [st EXCEPT !.calls = Append(@, "validator")]
    IN  IF e = NoExc
        THEN Advance(s1, st.contexto, "PREVALIDATION", "PREVALIDATION", delivered, "ocr")
        ELSE Throw(s1, st.contexto, e)

\* OcrStep calling the OCR service a second time when the first call raised.
OcrStep_retry(st, ocr, delivered) ==
    LET r == _execute_ocr(st.contexto, ocr)
    IN  IF r.exc = NoExc
        THEN Advance([st EXCEPT !.calls = Append(@, "ocr")], r.ctx, "REVI", "OCR", delivered,
                     "classify")
        ELSE Throw([st EXCEPT !.calls = @ \o <<"ocr", "ocr">>], r.ctx, r.exc)

\* Fase 2: OCR
OcrStep(st, ocr, delivered) ==
    LET r == _execute_ocr(st.contexto, ocr)
        s1 == [st EXCEPT !.calls = Append(@, "ocr")]
    IN  IF r.exc = NoExc
        THEN Advance(s1, r.ctx, "REVI", "OCR", delivered, "classify")
        ELSE Throw(s1, r.ctx, r.exc)

\* Fase 3: clasificacion y extraccion
ClassifyStep(st, ai_classify, ai_extract, delivered) ==
    LET r == _execute_classification_and_extraction(st.contexto, ai_classify, ai_extract)
        s1 == [st EXCEPT !.calls =
                    @ \o <<"classify">> \o (IF r.extracted THEN <<"extract">> ELSE <<>>)]
    IN  IF r.exc = NoExc
        THEN Advance(s1, r.ctx, "CLASSIFICATION", "CLASSIFICATION", delivered, "rules")
        ELSE Throw(s1, r.ctx, r.exc)

\* Fase 4: reglas de negocio, and the test that opens Fase 5
RulesStep(st, delivered) ==
    LET c == _execute_business_rules(st.contexto)
    IN  Advance(st, c, "VALIDATION", "VALIDATION", delivered,
                IF _should_validate_identity_cl(c) THEN "identity" ELSE "complete")

\* Fase 5: validacion de identidad CL
IdentityStep(st, http, delivered) ==
    LET r == _execute_identity_validation(st.contexto, http)
        s1 == [st EXCEPT !.calls =
                    @ \o <<"identity">> \o (IF r.posted THEN <<"boostr_http">> ELSE <<>>)]
    IN  Advance(s1, r.ctx, "VALIDATION_IDENTIDAD_CL", "IDENTITY_VALIDATION", delivered,
                "complete")

CompleteStep(st, delivered) ==
    Advance(st, st.contexto, "COMPLETED", "COMPLETED", delivered, "build")

\* except DocumentValidationException
HandleValidationErrorStep(st) ==
    [st EXCEPT !.contexto = _handle_validation_error(st.contexto, st.exc), !.pc = "build"]

\* except Exception
HandleProcessingErrorStep(st) ==
    [st EXCEPT !.contexto = _handle_processing_error(st.contexto, st.exc), !.pc = "build"]

\* return self._build_final_result(contexto, document)
BuildFinalResultStep(st, doc) ==
    LET r == _build_final_result(st.contexto, doc)
    IN  IF r.exc = NoExc
        THEN [st EXCEPT !.outcome = "returned", !.result = r.value, !.pc = "done"]
        ELSE [st EXCEPT !.outcome = "raised", !.result = NoResult, !.pc = "done"]

Validate ==
    /\ pc = "validate"
    /\ \E head \in HeadOutcomes, size \in SizeOutcomes, delivered \in BOOLEAN :
        Load(ValidateStep(Cur, document, head, size, delivered))
    /\ UNCHANGED <<Inputs, Others>>

Ocr ==
    /\ pc = "ocr"
    /\ \E ocr \in OcrOutcomes, delivered \in BOOLEAN : Load(OcrStep(Cur, ocr, delivered))
    /\ UNCHANGED <<Inputs, Others>>

Classify ==
    /\ pc = "classify"
    /\ \E ai_classify \in AiOutcomes(ClassificationJson),
          ai_extract \in AiOutcomes(ExtractionJson), delivered \in BOOLEAN :
        Load(ClassifyStep(Cur, ai_classify, ai_extract, delivered))
    /\ UNCHANGED <<Inputs, Others>>

Rules ==
    /\ pc = "rules"
    /\ \E delivered \in BOOLEAN : Load(RulesStep(Cur, delivered))
    /\ UNCHANGED <<Inputs, Others>>

Identity ==
    /\ pc = "identity"
    /\ \E http \in HttpOutcomes, delivered \in BOOLEAN : Load(IdentityStep(Cur, http, delivered))
    /\ UNCHANGED <<Inputs, Others>>

Complete ==
    /\ pc = "complete"
    /\ \E delivered \in BOOLEAN : Load(CompleteStep(Cur, delivered))
    /\ UNCHANGED <<Inputs, Others>>

HandleValidationError ==
    /\ pc = "except"
    /\ exc.type = "DocumentValidationException"
    /\ Load(HandleValidationErrorStep(Cur))
    /\ UNCHANGED <<Inputs, Others>>

HandleProcessingError ==
    /\ pc = "except"
    /\ exc.type # "DocumentValidationException"
    /\ Load(HandleProcessingErrorStep(Cur))
    /\ UNCHANGED <<Inputs, Others>>

BuildFinalResult ==
    /\ pc = "build"
    /\ Load(BuildFinalResultStep(Cur, document))
    /\ UNCHANGED <<Inputs, Others>>

Next ==
    \/ Validate
    \/ Ocr
    \/ Classify
    \/ Rules
    \/ Identity
    \/ Complete
    \/ HandleValidationError
    \/ HandleProcessingError
    \/ BuildFinalResult

Spec == Init /\ [][Next]_vars

----------------------------------------------------------------------------
(* OCRService._get_ocr_results: the result poll loop, one action per pass *)

MainIdle ==
    /\ owner_user_name = None
    /\ document = EmptyDict
    /\ contexto = NoInvocation.contexto
    /\ pc = NoInvocation.pc
    /\ exc = NoInvocation.exc
    /\ calls = NoInvocation.calls
    /\ notifications = NoInvocation.notifications
    /\ outcome = NoInvocation.outcome
    /\ result = NoInvocation.result

Main == <<owner_user_name, document, contexto, pc, exc, calls, notifications, outcome, result>>

InitPoll ==
    /\ MainIdle
    /\ poll = PollStart
    /\ ai_call = NoAi
    /\ twin = NoInvocation
    /\ pair = NoPair
    /\ service_call = NoCall

\* while attempt < max_attempts: one GET of the result endpoint and its handling
PollOnce ==
    /\ poll.pc = "loop"
    /\ poll.attempt < max_attempts
    /\ \E resp \in PollResponses : poll' = _get_ocr_results_pass(poll, resp)
    /\ UNCHANGED <<Main, ai_call, twin, pair, service_call>>

\* the loop test fails: raise Exception("Timeout esperando resultados de OCR")
PollTimeout ==
    /\ poll.pc = "loop"
    /\ ~(poll.attempt < max_attempts)
    /\ poll' = _get_ocr_results_timeout(poll)
    /\ UNCHANGED <<Main, ai_call, twin, pair, service_call>>

NextPoll ==
    \/ PollOnce
    \/ PollTimeout

\* Every GET carries timeout=10 and the sleep is one second: a pass always ends.
SpecPoll == InitPoll /\ [][NextPoll]_vars /\ WF_vars(NextPoll)

----------------------------------------------------------------------------
(* AIClassificationService: one call of classify_document or extract_structured_data *)

InitAi ==
    /\ MainIdle
    /\ poll = NoPoll
    /\ twin = NoInvocation
    /\ pair = NoPair
    /\ service_call = NoCall
    /\ \E op \in {"classify", "extract"}, ok \in BOOLEAN, text \in ReplyTexts :
        /\ ~ok => text = <<>>
        /\ ai_call = [NoAi EXCEPT !.pc = "call", !.op = op, !.transport_ok = ok, !.text = text]

\* The request of _call_ai_api fails, or it yields the reply text.
AiBackend == IF ai_call.transport_ok THEN AiReply(ai_call.text) ELSE AiTransportError

ClassifyDocument ==
    /\ ai_call.pc = "call"
    /\ ai_call.op = "classify"
    /\ ai_call' = [ai_call EXCEPT !.pc = "done", !.out = classify_document(AiBackend)]
    /\ UNCHANGED <<Main, poll, twin, pair, service_call>>

ExtractStructuredData ==
    /\ ai_call.pc = "call"
    /\ ai_call.op = "extract"
    /\ ai_call' = [ai_call EXCEPT !.pc = "done", !.out = extract_structured_data(AiBackend)]
    /\ UNCHANGED <<Main, poll, twin, pair, service_call>>

NextAi ==
    \/ ClassifyDocument
    \/ ExtractStructuredData

SpecAi == InitAi /\ [][NextAi]_vars

----------------------------------------------------------------------------
(* Two runs of process_document on the same inputs, step by step with the same
   provider outcomes.  In the first every notification attempt is delivered, in the
   second each attempt fails or not on its own: two runs that each equal the first
   equal one another. *)

InitRuns ==
    /\ owner_user_name \in Owners
    /\ document \in {d \in Documents : WellFormed(d)}
    /\ contexto = Entry(owner_user_name, document).contexto
    /\ pc = Entry(owner_user_name, document).pc
    /\ exc = Entry(owner_user_name, document).exc
    /\ calls = Entry(owner_user_name, document).calls
    /\ notifications = Entry(owner_user_name, document).notifications
    /\ outcome = Entry(owner_user_name, document).outcome
    /\ result = Entry(owner_user_name, document).result
    /\ twin = Entry(owner_user_name, document)
    /\ poll = NoPoll
    /\ ai_call = NoAi
    /\ pair = NoPair
    /\ service_call = NoCall

RunsRest == <<Inputs, poll, ai_call, pair, service_call>>

RunsValidate ==
    /\ pc = "validate" /\ twin.pc = "validate"
    /\ \E head \in HeadOutcomes, size \in SizeOutcomes, d2 \in BOOLEAN :
        /\ Load(ValidateStep(Cur, document, head, size, TRUE))
        /\ twin' = ValidateStep(twin, document, head, size, d2)
    /\ UNCHANGED RunsRest

RunsOcr ==
    /\ pc = "ocr" /\ twin.pc = "ocr"
    /\ \E ocr \in OcrOutcomes, d2 \in BOOLEAN :
        /\ Load(OcrStep(Cur, ocr, TRUE))
        /\ twin' = OcrStep(twin, ocr, d2)
    /\ UNCHANGED RunsRest

RunsClassify ==
    /\ pc = "classify" /\ twin.pc = "classify"
    /\ \E ai_classify \in AiOutcomes(ClassificationJson),
          ai_extract \in AiOutcomes(ExtractionJson), d2 \in BOOLEAN :
        /\ Load(ClassifyStep(Cur, ai_classify, ai_extract, TRUE))
        /\ twin' = ClassifyStep(twin, ai_classify, ai_extract, d2)
    /\ UNCHANGED RunsRest

RunsRules ==
    /\ pc = "rules" /\ twin.pc = "rules"
    /\ \E d2 \in BOOLEAN :
        /\ Load(RulesStep(Cur, TRUE))
        /\ twin' = RulesStep(twin, d2)
    /\ UNCHANGED RunsRest

RunsIdentity ==
    /\ pc = "identity" /\ twin.pc = "identity"
    /\ \E http \in HttpOutcomes, d2 \in BOOLEAN :
        /\ Load(IdentityStep(Cur, http, TRUE))
        /\ twin' = IdentityStep(twin, http, d2)
    /\ UNCHANGED RunsRest

RunsComplete ==
    /\ pc = "complete" /\ twin.pc = "complete"
    /\ \E d2 \in BOOLEAN :
        /\ Load(CompleteStep(Cur, TRUE))
        /\ twin' = CompleteStep(twin, d2)
    /\ UNCHANGED RunsRest

RunsHandleValidationError ==
    /\ pc = "except" /\ twin.pc = "except"
    /\ exc.type = "DocumentValidationException"
    /\ twin.exc.type = "DocumentValidationException"
    /\ Load(HandleValidationErrorStep(Cur))
    /\ twin' = HandleValidationErrorStep(twin)
    /\ UNCHANGED RunsRest

RunsHandleProcessingError ==
    /\ pc = "except" /\ twin.pc = "except"
    /\ exc.type # "DocumentValidationException"
    /\ twin.exc.type # "DocumentValidationException"
    /\ Load(HandleProcessingErrorStep(Cur))
    /\ twin' = HandleProcessingErrorStep(twin)
    /\ UNCHANGED RunsRest

RunsBuildFinalResult ==
    /\ pc = "build" /\ twin.pc = "build"
    /\ Load(BuildFinalResultStep(Cur, document))
    /\ twin' = BuildFinalResultStep(twin, document)
    /\ UNCHANGED RunsRest

NextRuns ==
    \/ RunsValidate
    \/ RunsOcr
    \/ RunsClassify
    \/ RunsRules
    \/ RunsIdentity
    \/ RunsComplete
    \/ RunsHandleValidationError
    \/ RunsHandleProcessingError
    \/ RunsBuildFinalResult

SpecRuns == InitRuns /\ [][NextRuns]_vars

----------------------------------------------------------------------------
(* Two invocations of process_document on one pipeline object, interleaved.  Each
   holds its context by reference; next to each runs the same invocation alone, on
   values, with the same provider outcomes. *)

Invocations == {1, 2}

PairOwner(i) == Str(<<"J", "u", "a", "n">>)

PairDocument(i) ==
    [k \in {"file_url", "file_name"} |->
        IF k = "file_url" THEN Str(<<"h", "t", "t", "p", ":", "/", "/", "x">>)
        ELSE IF i = 1 THEN Str(<<"a", ".", "p", "d", "f">>)
        ELSE Str(<<"A", ".", "P", "D", "F">>)]

\* The provider outcomes taken by the two invocations.
PairHeads == {"200", "404"}
PairSizes == {"10"}
PairOcr == {o \in OcrOutcomes : o.kind \in {"failed", "succeeded"} /\ Len(o.lines) <= 1}
PairClassifications ==
    {a \in AiOutcomes(ClassificationJson) :
        /\ a.kind = "json"
        /\ Get(a.json, "document_type", Desconocido) \in {Desconocido, CedulaFrontal}
        /\ Get(a.json, "confidence", 0) \in {69, 95}}
PairExtractions ==
    {a \in AiOutcomes(ExtractionJson) :
        a.kind = "transport_error" \/ (a.kind = "json" /\ "apellido_paterno" \in DOMAIN a.json)}
PairHttp == {h \in HttpOutcomes : h.status \in {"transport", "200"} /\ h.body # EmptyDict}

\* An invocation before line 49 of process_document: no context yet.
PairEntry(i) ==
    [Entry(PairOwner(i), PairDocument(i)) EXCEPT !.pc = "enter"]

InitPair ==
    /\ MainIdle
    /\ poll = NoPoll
    /\ ai_call = NoAi
    /\ twin = NoInvocation
    /\ service_call = NoCall
    /\ pair = [heap |-> <<>>,
               inv |-> [i \in Invocations |-> [PairEntry(i) EXCEPT !.contexto = 0]],
               alone |-> [i \in Invocations |-> PairEntry(i)]]

PairRest == <<Main, poll, ai_call, twin, service_call>>

\* Invocation i as its stage methods see it: the context read through its reference.
PairSt(i) == [pair.inv[i] EXCEPT !.contexto = Deref(pair.heap, @)]

\* Invocation i takes a step that leaves it as n, and the same invocation alone
\* takes it too, which leaves that one as m.
PairApply(i, n, m) ==
    LET ref == pair.inv[i].contexto
    IN  pair' = [heap |-> Store(pair.heap, ref, n.contexto),
                 inv |-> [pair.inv EXCEPT ![i] = [n EXCEPT !.contexto = ref]],
                 alone |-> [pair.alone EXCEPT ![i] = m]]

\* contexto = self._create_processing_context(owner_user_name, document)
PairEnter ==
    \E i \in Invocations :
        /\ pair.inv[i].pc = "enter"
        /\ LET c == _create_processing_context_on_heap(pair.heap, PairOwner(i), PairDocument(i))
           IN  pair' = [heap |-> c.heap,
                        inv |-> [pair.inv EXCEPT ![i].contexto = c.ref, ![i].pc = "validate"],
                        alone |-> [pair.alone EXCEPT ![i].pc = "validate"]]
        /\ UNCHANGED PairRest

PairValidate ==
    \E i \in Invocations :
        /\ pair.inv[i].pc = "validate"
        /\ \E head \in PairHeads, size \in PairSizes :
            LET F(st) == ValidateStep(st, PairDocument(i), head, size, TRUE)
            IN  PairApply(i, F(PairSt(i)), F(pair.alone[i]))
        /\ UNCHANGED PairRest

PairOcrStage ==
    \E i \in Invocations :
        /\ pair.inv[i].pc = "ocr"
        /\ \E ocr \in PairOcr :
            LET F(st) == OcrStep(st, ocr, TRUE)
            IN  PairApply(i, F(PairSt(i)), F(pair.alone[i]))
        /\ UNCHANGED PairRest

PairClassify ==
    \E i \in Invocations :
        /\ pair.inv[i].pc = "classify"
        /\ \E ai_classify \in PairClassifications, ai_extract \in PairExtractions :
            LET F(st) == ClassifyStep(st, ai_classify, ai_extract, TRUE)
            IN  PairApply(i, F(PairSt(i)), F(pair.alone[i]))
        /\ UNCHANGED PairRest

PairRules ==
    \E i \in Invocations :
        /\ pair.inv[i].pc = "rules"
        /\ LET F(st) == RulesStep(st, TRUE)
           IN  PairApply(i, F(PairSt(i)), F(pair.alone[i]))
        /\ UNCHANGED PairRest

PairIdentity ==
    \E i \in Invocations :
        /\ pair.inv[i].pc = "identity"
        /\ \E http \in PairHttp :
            LET F(st) == IdentityStep(st, http, TRUE)
            IN  PairApply(i, F(PairSt(i)), F(pair.alone[i]))
        /\ UNCHANGED PairRest

PairComplete ==
    \E i \in Invocations :
        /\ pair.inv[i].pc = "complete"
        /\ LET F(st) == CompleteStep(st, TRUE)
           IN  PairApply(i, F(PairSt(i)), F(pair.alone[i]))
        /\ UNCHANGED PairRest

PairHandleValidationError ==
    \E i \in Invocations :
        /\ pair.inv[i].pc = "except"
        /\ pair.inv[i].exc.type = "DocumentValidationException"
        /\ LET F(st) == HandleValidationErrorStep(st)
           IN  PairApply(i, F(PairSt(i)), F(pair.alone[i]))
        /\ UNCHANGED PairRest

PairHandleProcessingError ==
    \E i \in Invocations :
        /\ pair.inv[i].pc = "except"
        /\ pair.inv[i].exc.type # "DocumentValidationException"
        /\ LET F(st) == HandleProcessingErrorStep(st)
           IN  PairApply(i, F(PairSt(i)), F(pair.alone[i]))
        /\ UNCHANGED PairRest

PairBuildFinalResult ==
    \E i \in Invocations :
        /\ pair.inv[i].pc = "build"
        /\ LET F(st) == BuildFinalResultStep(st, PairDocument(i))
           IN  PairApply(i, F(PairSt(i)), F(pair.alone[i]))
        /\ UNCHANGED PairRest

NextPair ==
    \/ PairEnter
    \/ PairValidate
    \/ PairOcrStage
    \/ PairClassify
    \/ PairRules
    \/ PairIdentity
    \/ PairComplete
    \/ PairHandleValidationError
    \/ PairHandleProcessingError
    \/ PairBuildFinalResult

SpecPair == InitPair /\ [][NextPair]_vars

----------------------------------------------------------------------------
(* BoostrService: one call of validate_rut or of validate_from_extracted_data *)

soto == Str(<<"S", "o", "t", "o">>)

\* The keys validate_from_extracted_data reads, and a value for each.
IdentityKeys ==
    {"rut", "numero_documento", "nombre_completo", "nombre", "apellido_paterno",
     "apellido_materno"}

IdentityValue(k) ==
    CASE k \in {"rut", "numero_documento"} -> rut_
      [] k = "nombre_completo" -> juan_perez
      [] k = "nombre" -> juan
      [] k = "apellido_paterno" -> perez
      [] OTHER -> soto

\* Extracted data: each key absent, null, empty or set.
ExtractedData ==
    UNION { {d \in [keys -> {None, Str(<<>>), rut_, juan_perez, juan, perez, soto}] :
                \A k \in keys : d[k] \in {None, Str(<<>>), IdentityValue(k)}} :
            keys \in SUBSET IdentityKeys }

\* Responses of the identity API: those of HttpOutcomes and further statuses.
BoostrHttp == HttpOutcomes \cup [status : {"201", "400", "503"}, body : {EmptyDict}]

InitBoostr ==
    /\ MainIdle
    /\ poll = NoPoll
    /\ ai_call = NoAi
    /\ twin = NoInvocation
    /\ pair = NoPair
    /\ \/ \E rut \in {rut_, Str(<<"1", "9">>)}, nombre \in {juan, juan_perez},
             http \in BoostrHttp :
            service_call = [NoCall EXCEPT !.pc = "call", !.op = "validate_rut",
                                !.args = [rut |-> rut, nombre |-> nombre, http |-> http]]
       \/ \E data \in ExtractedData, http \in HttpOutcomes :
            service_call = [NoCall EXCEPT !.pc = "call", !.op = "validate_from_extracted_data",
                                !.args = [extracted_data |-> data, http |-> http]]

CallRest == <<Main, poll, ai_call, twin, pair>>

ValidateRut ==
    /\ service_call.pc = "call"
    /\ service_call.op = "validate_rut"
    /\ service_call' = [service_call EXCEPT !.pc = "done",
            !.out = validate_rut(service_call.args.rut, service_call.args.nombre, None,
                                 service_call.args.http)]
    /\ UNCHANGED CallRest

ValidateFromExtractedData ==
    /\ service_call.pc = "call"
    /\ service_call.op = "validate_from_extracted_data"
    /\ service_call' = [service_call EXCEPT !.pc = "done",
            !.out = validate_from_extracted_data(service_call.args.extracted_data,
                                                 service_call.args.http)]
    /\ UNCHANGED CallRest

NextBoostr ==
    \/ ValidateRut
    \/ ValidateFromExtractedData

SpecBoostr == InitBoostr /\ [][NextBoostr]_vars

----------------------------------------------------------------------------
(* DocumentContentValidator: calls of validate_document_content on one validator
   object, and one call of _validate_name *)

\* Values of extracted_data["fecha_vencimiento"]
ExpiryValues ==
    { None, Str(<<>>),
      Str(<<"2", "0", "2", "0", "-", "0", "1", "-", "0", "1">>),
      Str(<<"0", "1", "-", "0", "1", "-", "2", "0", "2", "0">>),
      Str(<<"0", "1", "/", "0", "1", "/", "2", "0", "2", "0">>),
      Str(<<"2", "0", "2", "0", "/", "0", "1", "/", "0", "1">>),
      Str(<<"2", "9", "9", "9", "-", "1", "2", "-", "3", "1">>),
      Str(<<"3", "1", "/", "1", "2", "/", "2", "9", "9", "9">>),
      Str(<<"2", "0", "2", "6", "-", "1", "1", "-", "0", "1">>),
      Str(<<"2", "0", "2", "4", "-", "0", "2", "-", "2", "9">>),
      Str(<<"2", "0", "2", "3", "-", "0", "2", "-", "2", "9">>),
      Str(<<"2", "0", "2", "0", "-", "1", "3", "-", "0", "1">>),
      Str(<<"2", "0", "2", "0", ".", "0", "1", ".", "0", "1">>),
      Str(<<"0", "1", "-", "0", "1", "-", "2", "0">>),
      Str(<<"0", "0", "0", "0", "-", "0", "1", "-", "0", "1">>),
      Str(<<"2", "0", "2", "0", "-", "1", "-", "1">>),
      Str(<<"s", "i", "n", " ", "f", "e", "c", "h", "a">>) }

\* datetime.now() during a call: a date and the time elapsed since its midnight
Nows ==
    { [year |-> 2026, month |-> 11, day |-> 1, elapsed |-> 0],
      [year |-> 2026, month |-> 11, day |-> 1, elapsed |-> 1],
      [year |-> 2019, month |-> 12, day |-> 31, elapsed |-> 1] }

cedula_frontal ==
    Str(<<"C", "e", "d", "u", "l", "a", " ", "d", "e", " ", "I", "d", "e", "n", "t", "i", "d",
    "a", "d", " ", "C", "L", " ", "(", "F", "r", "o", "n", "t", "a", "l", ")">>)
cedula_reverso ==
    Str(<<"C", "e", "d", "u", "l", "a", " ", "d", "e", " ", "I", "d", "e", "n", "t", "i", "d",
    "a", "d", " ", "C", "L", " ", "(", "R", "e", "v", "e", "r", "s", "o", ")">>)
licencia_de_conducir ==
    Str(<<"L", "i", "c", "e", "n", "c", "i", "a", " ", "d", "e", " ", "C", "o", "n", "d", "u",
    "c", "i", "r">>)
desconocido == Str(<<"D", "e", "s", "c", "o", "n", "o", "c", "i", "d", "o">>)

ExpectedTypes == {None, cedula_frontal, licencia_de_conducir}
DetectedTypes == {cedula_frontal, cedula_reverso, desconocido}

rut_dotted == Str(<<"1", "2", ".", "3", "4", "5", ".", "6", "7", "8", "-", "9">>)
rut_plain == Str(<<"1", "2", "3", "4", "5", "6", "7", "8", "9">>)
rut_other == Str(<<"1", "1", ".", "1", "1", "1", ".", "1", "1", "1", "-", "1">>)
juan_perez_accent == Str(<<"J", "u", "a", "n", " ", "P", "e'", "r", "e", "z">>)
pedro_soto == Str(<<"P", "e", "d", "r", "o", " ", "S", "o", "t", "o">>)


\* extracted_data and applicant_data: each key absent or set
ContentExtractedData ==
    { [k \in keys |-> CASE k = "rut" -> rut_dotted
                        [] k = "nombre" -> juan
                        [] k = "apellido_paterno" -> perez
                        [] OTHER -> expiry] :
        keys \in SUBSET {"rut", "nombre", "apellido_paterno", "fecha_vencimiento"},
        expiry \in ExpiryValues }

ContentApplicantData ==
    { [k \in keys |-> IF k = "rut" THEN rut ELSE nombre] :
        keys \in SUBSET {"rut", "nombre"},
        rut \in {rut_plain, rut_other},
        nombre \in {juan_perez_accent, pedro_soto} }

\* The arguments of a call of validate_document_content
ContentInputs ==
    [extracted_data : ContentExtractedData, applicant_data : ContentApplicantData,
     expected_document_type : ExpectedTypes, document_type : DetectedTypes]

\* The attributes of a DocumentContentValidator after __init__
NoAttributes == EmptyDict

\* A call that keeps what it observed on the validator and starts from it
validate_document_content_on_kept(self, inputs, now) ==
    LET kept == Get(self, "observations", <<>>)
        r == validate_document_content(inputs.extracted_data, inputs.applicant_data,
                                       inputs.expected_document_type, inputs.document_type, now)
    IN  [self |-> [k \in {"observations"} |-> kept \o Tail(r.observations)],
         inputs |-> inputs,
         value |-> [r EXCEPT !.observations = <<Head(@)>> \o kept \o Tail(@)]]

\* A call of validate_document_content on the validator whose attributes are self,
\* with the argument objects' contents inputs: the attributes and the contents the
\* call leaves, and the value it returns
validate_document_content_on(self, inputs, now) ==
    [self |-> self,
     inputs |-> inputs,
     value |-> validate_document_content(inputs.extracted_data, inputs.applicant_data,
                                         inputs.expected_document_type, inputs.document_type,
                                         now)]

MaxWords == 3

NameWords ==
    { <<"J", "u", "a", "n">>, <<"P", "e'", "r", "e", "z">>, <<"p", "e", "r", "e", "z">>,
      <<"S", "o", "t", "o">> }

\* The names of exactly n words of NameWords, a space between two words
RECURSIVE NamesOf(_)
NamesOf(n) ==
    IF n = 0 THEN {<<>>}
    ELSE IF n = 1 THEN NameWords
    ELSE {w \o <<" ">> \o rest : w \in NameWords, rest \in NamesOf(n - 1)}

NamesUpTo(n) == UNION {NamesOf(k) : k \in 0..n}

seven_words == Str(<<"a", " ", "b", " ", "c", " ", "d", " ", "e", " ", "f", " ", "g">>)
ten_words ==
    Str(<<"a", " ", "b", " ", "c", " ", "d", " ", "e", " ", "f", " ", "g", " ", "h", " ", "i",
    " ", "j">>)
juan_perez_spaced ==
    Str(<<" ", " ", "J", "U", "A", "N", " ", " ", " ", "P", "E'", "R", "E", "Z", " ">>)

soto_juan == Str(<<"S", "o", "t", "o", " ", "J", "u", "a", "n">>)
juan_juan == Str(<<"J", "u", "a", "n", " ", "J", "u", "a", "n">>)

ExtractedNombres ==
    {None, Str(<<>>), juan, soto_juan, juan_juan, seven_words, juan_perez_spaced}

ExpectedFullNames ==
    {ten_words, Str(<<" ", " ">>)} \cup {Str(s) : s \in NamesUpTo(MaxWords)}

perez_accent == Str(<<"P", "e'", "r", "e", "z">>)

InitContent ==
    /\ MainIdle
    /\ poll = NoPoll
    /\ ai_call = NoAi
    /\ twin = NoInvocation
    /\ pair = NoPair
    /\ \/ \E inputs \in ContentInputs, now \in Nows :
            service_call = [NoCall EXCEPT !.pc = "call", !.op = "validate_document_content",
                                !.args = [given |-> inputs, inputs |-> inputs,
                                          self |-> NoAttributes, now |-> now]]
       \/ \E nombre \in ExtractedNombres, paterno \in {None, Str(<<>>), perez_accent, soto},
             materno \in {None, soto}, expected \in ExpectedFullNames :
            service_call = [NoCall EXCEPT !.pc = "call", !.op = "_validate_name",
                                !.args = [extracted_nombre |-> nombre,
                                          extracted_apellido_paterno |-> paterno,
                                          extracted_apellido_materno |-> materno,
                                          expected_full_name |-> expected]]

\* The first call on the validator
ValidateDocumentContent ==
    /\ service_call.pc = "call"
    /\ service_call.op = "validate_document_content"
    /\ LET a == service_call.args
           r == validate_document_content_on(a.self, a.inputs, a.now)
       IN  service_call' = [service_call EXCEPT !.pc = "done",
                                !.args = [a EXCEPT !.self = r.self, !.inputs = r.inputs],
                                !.out = <<r.value>>]
    /\ UNCHANGED CallRest

\* A second call on the same validator with the same argument objects, at the same time
ValidateDocumentContentAgain ==
    /\ service_call.pc = "done"
    /\ service_call.op = "validate_document_content"
    /\ LET a == service_call.args
           r == validate_document_content_on(a.self, a.inputs, a.now)
       IN  service_call' = [service_call EXCEPT !.pc = "twice",
                                !.args = [a EXCEPT !.self = r.self, !.inputs = r.inputs],
                                !.out = Append(@, r.value)]
    /\ UNCHANGED CallRest

ValidateName ==
    /\ service_call.pc = "call"
    /\ service_call.op = "_validate_name"
    /\ LET a == service_call.args
       IN  service_call' = [service_call EXCEPT !.pc = "done",
                !.out = _validate_name(a.extracted_nombre, a.extracted_apellido_paterno,
                                       a.extracted_apellido_materno, a.expected_full_name)]
    /\ UNCHANGED CallRest

NextContent ==
    \/ ValidateDocumentContent
    \/ ValidateDocumentContentAgain
    \/ ValidateName

SpecContent == InitContent /\ [][NextContent]_vars

----------------------------------------------------------------------------
(* DocumentContentValidator: one call of _validate_rut or of _types_match *)

MaxRut == 3

RutChars == {"1", ".", "-", " ", "K", "k"}

\* The strings of exactly n characters of RutChars
RECURSIVE RutsOf(_)
RutsOf(n) ==
    IF n = 0 THEN {<<>>}
    ELSE {<<c>> \o rest : c \in RutChars, rest \in RutsOf(n - 1)}

ExtractedRuts == {rut_dotted} \cup {Str(r) : r \in UNION {RutsOf(n) : n \in 0..MaxRut}}

ExpectedRuts ==
    { None, Str(<<>>), rut_plain, Str(<<"1", "k">>), Str(<<"1", ".", "K">>), Str(<<"1", "-", "1">>), Str(<<"k", "1">>) }

cedula_acute_identidad ==
    Str(<<"C", "e'", "d", "u", "l", "a", " ", "d", "e", " ", "I", "d", "e", "n", "t", "i",
    "d", "a", "d">>)
cedula_frontal_lower ==
    Str(<<"c", "e", "d", "u", "l", "a", " ", "d", "e", " ", "i", "d", "e", "n", "t", "i", "d",
    "a", "d", " ", "c", "l", " ", "(", "f", "r", "o", "n", "t", "a", "l", ")">>)
documento_identidad_reverso ==
    Str(<<"D", "o", "c", "u", "m", "e", "n", "t", "o", " ", "d", "e", " ", "I", "d", "e", "n",
    "t", "i", "d", "a", "d", " ", "(", "R", "e", "v", "e", "r", "s", "o", ")">>)
licencia_cl ==
    Str(<<"L", "i", "c", "e", "n", "c", "i", "a", " ", "d", "e", " ", "C", "o", "n", "d", "u",
    "c", "i", "r", " ", "C", "L">>)
licencia_frontal ==
    Str(<<"L", "i", "c", "e", "n", "c", "i", "a", " ", "d", "e", " ", "C", "o", "n", "d", "u",
    "c", "i", "r", " ", "(", "F", "r", "o", "n", "t", "a", "l", ")">>)
licencia_reverso ==
    Str(<<"L", "i", "c", "e", "n", "c", "i", "a", " ", "d", "e", " ", "C", "o", "n", "d", "u",
    "c", "i", "r", " ", "(", "R", "e", "v", "e", "r", "s", "o", ")">>)
pasaporte_ ==
    Str(<<"P", "a", "s", "a", "p", "o", "r", "t", "e">>)
pasaporte_upper ==
    Str(<<"P", "A", "S", "A", "P", "O", "R", "T", "E">>)
desconocido_lower ==
    Str(<<"d", "e", "s", "c", "o", "n", "o", "c", "i", "d", "o">>)
certificado ==
    Str(<<"C", "e", "r", "t", "i", "f", "i", "c", "a", "d", "o">>)

TypeNames ==
    { cedula_frontal, cedula_reverso, desconocido, licencia_de_conducir,
      cedula_acute_identidad, cedula_frontal_lower, documento_identidad_reverso, licencia_cl, licencia_frontal,
      licencia_reverso, pasaporte_, pasaporte_upper, desconocido_lower, certificado }

InitChecks ==
    /\ MainIdle
    /\ poll = NoPoll
    /\ ai_call = NoAi
    /\ twin = NoInvocation
    /\ pair = NoPair
    /\ \/ \E extracted \in ExtractedRuts, expected \in ExpectedRuts :
            service_call = [NoCall EXCEPT !.pc = "call", !.op = "_validate_rut",
                                !.args = [extracted_rut |-> extracted,
                                          expected_rut |-> expected]]
       \/ \E expected \in TypeNames, detected \in TypeNames :
            service_call = [NoCall EXCEPT !.pc = "call", !.op = "_types_match",
                                !.args = [expected |-> expected, detected |-> detected]]

ValidateRutNumber ==
    /\ service_call.pc = "call"
    /\ service_call.op = "_validate_rut"
    /\ service_call' = [service_call EXCEPT !.pc = "done",
            !.out = _validate_rut(service_call.args.extracted_rut,
                                  service_call.args.expected_rut)]
    /\ UNCHANGED CallRest

\* The type check of validate_document_content: _types_match and what a mismatch appends
TypesMatch ==
    /\ service_call.pc = "call"
    /\ service_call.op = "_types_match"
    /\ LET a == service_call.args
       IN  service_call' = [service_call EXCEPT !.pc = "done",
                !.out = [ok |-> _types_match(a.expected, a.detected),
                         tally |-> CheckType(Tally(<<>>, 0, 0), a.expected, a.detected)]]
    /\ UNCHANGED CallRest

NextChecks ==
    \/ ValidateRutNumber
    \/ TypesMatch

SpecChecks == InitChecks /\ [][NextChecks]_vars

----------------------------------------------------------------------------
(* core/schemas.py: PlatformDocumentItem and PlatformProcessRequest *)

\* A JSON array or Python list of items
List(items) == [t |-> "list", s |-> items]
IsList(v) == v.t = "list"

\* bool(v) of a str, a list or None
NotEmpty(v) == v.t \in {"str", "list"} /\ v.s # <<>>

\* PlatformDocumentItem(**item) is accepted: file_url and file_name are required str
PlatformDocumentItemAccepts(item) ==
    /\ IsStr(Get(item, "file_url", None))
    /\ IsStr(Get(item, "file_name", None))
    /\ Get(item, "platform_document_id", None).t \in {"str", "None"}

\* PlatformProcessRequest(**data): [exc, value]
PlatformProcessRequest(data) ==
    LET owner == Get(data, "owner_user_name", None)
        documents == Get(data, "documents", None)
    IN  IF /\ IsStr(owner)
           /\ IsList(documents)
           /\ Len(documents.s) >= 1
           /\ \A i \in 1..Len(documents.s) : PlatformDocumentItemAccepts(documents.s[i])
           /\ Get(data, "url_response", None).t \in {"str", "None"}
        THEN [exc |-> NoExc, value |-> data]
        ELSE [exc |-> Raise("ValidationError", <<"validation error for PlatformProcessRequest">>),
              value |-> EmptyDict]

----------------------------------------------------------------------------
(* handlers/api_handler.py *)

health_path == "/api/v1/health"
process_path == "/api/v1/platform/process-documents-platform"

valid_document_names ==
    { Str(<<"C", "l", "e", "m", "e", "n", "t", "e", " ", "A", "r", "r", "i", "a", "g", "a", "d", "a">>),
      Str(<<"C", "l", "e", "m", "e", "n", "t", "e", " ", "A", "r", "r", "i", "a", "g", "a", "d", "a", " ", "F", "a", "l", "c", "o", "n", "e">>),
      Str(<<"M", "a", "r", "i'", "a", " ", "G", "o", "n", "z", "a'", "l", "e", "z">>),
      Str(<<"C", "a", "r", "l", "o", "s", " ", "L", "o'", "p", "e", "z">>) }

SupportedExtensions == {<<"p", "d", "f">>, <<"j", "p", "g">>, <<"j", "p", "e", "g">>, <<"p", "n", "g">>}

\* file_name.lower().split('.')[-1]
FileExtension(file_name) ==
    LET parts == Fields(Lower(file_name.s), ".")
    IN  parts[Len(parts)]

\* The response of the handler
Response(statusCode, body) == [statusCode |-> statusCode, body |-> body]

\* What a handler did: the items put and the updates made in the results table,
\* the notifications posted, and its response
NoResponseYet == Response(0, "none")
ApiStart == [stored |-> <<>>, updated |-> <<>>, posted |-> <<>>, response |-> NoResponseYet, i |-> 1]

\* The handler up to the loops: the response it returns at once, or "proceed".
\* aws is the outcome of boto3.resource('dynamodb').
ApiRoute_no_guard(event, aws) ==
    IF event.path = health_path /\ event.httpMethod = "GET" THEN Response(200, "healthy")
    ELSE IF event.path = process_path /\ event.httpMethod = "POST"
    THEN IF event.body.kind \in {"absent", "empty"}
         THEN Response(400, "Request body is required")
         ELSE IF event.body.kind = "invalid"
         THEN Response(400, "Invalid JSON in request body")
         ELSE IF event.body.kind # "object"
         THEN Response(500, "Internal server error")
         ELSE IF aws # "ok" THEN Response(500, "Error en procesamiento")
              ELSE Response(0, "proceed")
    ELSE Response(404, "Not found")

ApiRoute(event, aws) ==
    IF event.path = health_path /\ event.httpMethod = "GET" THEN Response(200, "healthy")
    ELSE IF event.path = process_path /\ event.httpMethod = "POST"
    THEN IF event.body.kind \in {"absent", "empty"}
         THEN Response(400, "Request body is required")
         ELSE IF event.body.kind = "invalid"
         THEN Response(400, "Invalid JSON in request body")
         ELSE IF event.body.kind # "object"
         THEN Response(500, "Internal server error")
         ELSE LET owner == Get(event.body.value, "owner_user_name", None)
                  documents == Get(event.body.value, "documents", List(<<>>))
              IN  IF ~NotEmpty(owner) \/ ~NotEmpty(documents)
                  THEN Response(400, "owner_user_name and documents are required")
                  ELSE IF aws # "ok" THEN Response(500, "Error en procesamiento")
                  ELSE Response(0, "proceed")
    ELSE Response(404, "Not found")

ItemKeys == {"platform_document_id", "file_name", "file_url"}

\* PASO 1 for one document: [raised, did].  put is the outcome of put_item.  A
\* KeyError of the except clause's own doc['platform_document_id'] leaves the loop.
StoreOne(did, doc, owner, put) ==
    IF ItemKeys \subseteq DOMAIN doc /\ put = "ok"
    THEN [raised |-> FALSE,
          did |-> [did EXCEPT !.stored = Append(@,
                      [document_id |-> doc["platform_document_id"],
                       file_name |-> doc["file_name"],
                       owner_user_name |-> owner,
                       processing_status |-> "PROCESSING"])]]
    ELSE [raised |-> "platform_document_id" \notin DOMAIN doc, did |-> did]

\* The decision of PASO 2 for a supported file
ApiDecision(owner) ==
    IF Len(owner.s) > 3 /\ owner \in valid_document_names
    THEN "APPROVED" ELSE "REJECTED"

\* The types of the observations of PASO 2
ApiObservations(owner) ==
    LET owner_name_valid == Len(owner.s) > 3
        owner_name_in_document == owner \in valid_document_names
        passed == owner_name_valid /\ owner_name_in_document
    IN  (IF ~owner_name_valid THEN <<"validation_error">> ELSE <<>>)
        \o (IF ~owner_name_in_document THEN <<"critical_error">> ELSE <<>>)
        \o (IF ~passed THEN <<"validation_error">> ELSE <<>>)
        \o (IF passed THEN <<"success">> ELSE <<>>)

\* PASO 2 for one document: [raised, did].  update is the outcome of update_item,
\* post that of the notification request.
ProcessOne(did, doc, owner, update, post) ==
    IF /\ ItemKeys \subseteq DOMAIN doc
       /\ IsStr(doc["file_name"])
       /\ FileExtension(doc["file_name"]) \in SupportedExtensions
       /\ IsStr(doc["platform_document_id"])
       /\ update = "ok"
    THEN [raised |-> FALSE,
          did |-> [did EXCEPT
                    !.updated = Append(@,
                        [document_id |-> doc["platform_document_id"],
                         processing_status |-> "COMPLETED",
                         final_decision |-> ApiDecision(owner),
                         observations |-> ApiObservations(owner)]),
                    !.posted = IF post = "ok" THEN Append(@, doc["platform_document_id"])
                               ELSE @]]
    ELSE [raised |-> "platform_document_id" \notin DOMAIN doc, did |-> did]

----------------------------------------------------------------------------
(* One request to the API handler, and one construction of the request model *)

MaxDocs == 2

doc_pdf == [platform_document_id |-> Str(<<"d", "1">>), file_name |-> Str(<<"a", ".", "p", "d", "f">>), file_url |-> Str(<<"u">>)]
doc_exe == [platform_document_id |-> Str(<<"d", "2">>), file_name |-> Str(<<"a", ".", "e", "x", "e">>), file_url |-> Str(<<"u">>)]
doc_no_id == [file_name |-> Str(<<"b", ".", "P", "N", "G">>), file_url |-> Str(<<"u">>)]
doc_null_name == [platform_document_id |-> Str(<<"d", "3">>), file_name |-> None, file_url |-> Str(<<"u">>)]
ApiDocs == {doc_pdf, doc_exe, doc_no_id, doc_null_name}

RECURSIVE DocumentsOf(_)
DocumentsOf(n) == IF n = 0 THEN {<<>>} ELSE {<<d>> \o rest : d \in ApiDocs, rest \in DocumentsOf(n - 1)}
ApiDocuments == {None} \cup {List(docs) : docs \in UNION {DocumentsOf(n) : n \in 0..MaxDocs}}

ana == Str(<<"A", "n", "a">>)
carlos_lopez == Str(<<"C", "a", "r", "l", "o", "s", " ", "L", "o'", "p", "e", "z">>)
ApiOwners == {None, Str(<<>>), ana, juan_perez_accent, carlos_lopez}

ApiRequests ==
    UNION { { [k \in keys |-> IF k = "owner_user_name" THEN owner ELSE documents]
              : owner \in ApiOwners, documents \in ApiDocuments }
            : keys \in SUBSET {"owner_user_name", "documents"} }

Body(kind, value) == [kind |-> kind, value |-> value]
ApiEvents ==
    { [path |-> health_path, httpMethod |-> "GET", body |-> Body("absent", EmptyDict)],
      [path |-> process_path, httpMethod |-> "GET", body |-> Body("absent", EmptyDict)],
      [path |-> "/", httpMethod |-> "POST", body |-> Body("absent", EmptyDict)] }
    \cup { [path |-> process_path, httpMethod |-> "POST", body |-> Body(kind, EmptyDict)]
           : kind \in {"absent", "empty", "invalid", "list"} }
    \cup { [path |-> process_path, httpMethod |-> "POST", body |-> Body("object", request_data)]
           : request_data \in ApiRequests }

Outcomes == {"ok", "error"}

InitApi ==
    /\ MainIdle
    /\ poll = NoPoll
    /\ ai_call = NoAi
    /\ twin = NoInvocation
    /\ pair = NoPair
    /\ \/ \E event \in ApiEvents, aws \in Outcomes :
            service_call = [NoCall EXCEPT !.pc = "call", !.op = "handler",
                                !.args = [event |-> event, aws |-> aws],
                                !.out = ApiStart]
       \/ \E data \in ApiRequests :
            service_call = [NoCall EXCEPT !.pc = "call", !.op = "PlatformProcessRequest",
                                !.args = [data |-> data]]

\* The documents and the owner of a request that reached the loops
ApiDocumentsOf(call) == Get(call.args.event.body.value, "documents", List(<<>>)).s
ApiOwnerOf(call) == Get(call.args.event.body.value, "owner_user_name", None)

\* handler up to the loops
ApiHandlerEnter ==
    /\ service_call.pc = "call"
    /\ service_call.op = "handler"
    /\ LET response == ApiRoute(service_call.args.event, service_call.args.aws)
       IN  IF response.statusCode # 0
           THEN service_call' = [service_call EXCEPT !.pc = "done", !.out.response = response]
           ELSE service_call' = [service_call EXCEPT !.pc = "store"]
    /\ UNCHANGED CallRest

\* PASO 1: one turn of the loop that stores the documents
ApiStoreDocument ==
    /\ service_call.pc = "store"
    /\ service_call.out.i <= Len(ApiDocumentsOf(service_call))
    /\ \E put \in Outcomes :
          LET r == StoreOne(service_call.out, ApiDocumentsOf(service_call)[service_call.out.i],
                            ApiOwnerOf(service_call), put)
          IN  IF r.raised
              THEN service_call' = [service_call EXCEPT !.pc = "done",
                      !.out.response = Response(500, "Error en procesamiento")]
              ELSE service_call' = [service_call EXCEPT
                      !.out = [r.did EXCEPT !.i = @ + 1]]
    /\ UNCHANGED CallRest

\* The end of the first loop
ApiStoreEnd ==
    /\ service_call.pc = "store"
    /\ service_call.out.i > Len(ApiDocumentsOf(service_call))
    /\ service_call' = [service_call EXCEPT !.pc = "process", !.out.i = 1]
    /\ UNCHANGED CallRest

\* PASO 2: one turn of the loop that processes the documents
ApiProcessDocument ==
    /\ service_call.pc = "process"
    /\ service_call.out.i <= Len(ApiDocumentsOf(service_call))
    /\ \E update \in Outcomes, post \in Outcomes :
          LET r == ProcessOne(service_call.out, ApiDocumentsOf(service_call)[service_call.out.i],
                              ApiOwnerOf(service_call), update, post)
          IN  IF r.raised
              THEN service_call' = [service_call EXCEPT !.pc = "done",
                      !.out.response = Response(500, "Error en procesamiento")]
              ELSE service_call' = [service_call EXCEPT
                      !.out = [r.did EXCEPT !.i = @ + 1]]
    /\ UNCHANGED CallRest

\* The response after the loops
ApiRespond ==
    /\ service_call.pc = "process"
    /\ service_call.out.i > Len(ApiDocumentsOf(service_call))
    /\ service_call' = [service_call EXCEPT !.pc = "done",
            !.out.response = Response(200, "Documents processing completed")]
    /\ UNCHANGED CallRest

\* PlatformProcessRequest(**data)
ConstructRequest ==
    /\ service_call.pc = "call"
    /\ service_call.op = "PlatformProcessRequest"
    /\ service_call' = [service_call EXCEPT !.pc = "done",
            !.out = PlatformProcessRequest(service_call.args.data)]
    /\ UNCHANGED CallRest

NextApi ==
    \/ ApiHandlerEnter
    \/ ApiStoreDocument
    \/ ApiStoreEnd
    \/ ApiProcessDocument
    \/ ApiRespond
    \/ ConstructRequest

SpecApi == InitApi /\ [][NextApi]_vars

----------------------------------------------------------------------------
(* handlers/uploaded_files_processor.py: one record of the stream *)

\* document_data.get('applicantData'): given or not, and its mapping
Applicant(given, value) == [given |-> given, value |-> value]
NoApplicant == Applicant(FALSE, EmptyDict)

\* bool(applicant_data)
ApplicantPresent(applicant_data) == applicant_data.given /\ applicant_data.value # EmptyDict

\* result.model_dump(), the fields the handler reads and writes
ResultDict(processing_status, final_decision, observations, data_structure, document_type) ==
    [processing_status |-> processing_status, final_decision |-> final_decision,
     observations |-> observations, data_structure |-> data_structure,
     document_type |-> document_type]

\* The content validation of the handler with any status of the pipeline
ContentValidationStep_any_status(result_dict, document_data, now) ==
    IF ApplicantPresent(document_data.applicantData)
    THEN LET v == validate_document_content(result_dict.data_structure,
                      document_data.applicantData.value,
                      document_data.expectedDocumentType, result_dict.document_type, now)
         IN  [result_dict |-> [result_dict EXCEPT !.final_decision = v.decision,
                                                  !.observations = v.observations],
              validation |-> <<v>>]
    ELSE [result_dict |-> result_dict, validation |-> <<>>]

\* The content validation of the handler: [result_dict, validation], validation
\* holding what the validator returned when it was called
ContentValidationStep(result_dict, document_data, now) ==
    IF /\ ApplicantPresent(document_data.applicantData)
       /\ result_dict.processing_status = "COMPLETED"
    THEN LET v == validate_document_content(result_dict.data_structure,
                      document_data.applicantData.value,
                      document_data.expectedDocumentType, result_dict.document_type, now)
         IN  [result_dict |-> [result_dict EXCEPT !.final_decision = v.decision,
                                                  !.observations = v.observations],
              validation |-> <<v>>]
    ELSE [result_dict |-> result_dict, validation |-> <<>>]

\* The approved file is renamed
ShouldRename(result_dict, document_data) ==
    /\ result_dict.final_decision = "APPROVED"
    /\ ApplicantPresent(document_data.applicantData)
    /\ Truthy(document_data.expectedDocumentType)

\* An observation holds a float, which the table's serializer refuses
HoldsFloat(obs) == "extra" \in DOMAIN obs /\ "similarity" \in DOMAIN obs.extra

\* save_processing_result: the item put, or none when put_item raises
SavedItems(result_dict, put) ==
    IF put = "ok" /\ \A i \in 1..Len(result_dict.observations) : ~HoldsFloat(result_dict.observations[i])
    THEN <<[processing_status |-> result_dict.processing_status,
            final_decision |-> result_dict.final_decision,
            document_type |-> result_dict.document_type,
            data_structure |-> result_dict.data_structure,
            observations |-> result_dict.observations]>>
    ELSE <<>>

\* update_source_document_status: the status written to the source document
SourceStatus(result_dict) ==
    IF result_dict.processing_status = "COMPLETED" THEN result_dict.final_decision
    ELSE IF result_dict.processing_status = "FAILED" THEN "FAILED"
    ELSE "PROCESSING"

Counts(processed, skipped, failed) == [processed |-> processed, skipped |-> skipped, failed |-> failed]

NoResultDict == ResultDict("PENDING", "MANUAL_REVIEW", <<>>, EmptyDict, desconocido)
UploadedStart ==
    [pipeline |-> NoResultDict, result_dict |-> NoResultDict, validation |-> <<>>,
     renamed |-> FALSE, stored |-> <<>>, source |-> <<>>, counts |-> Counts(0, 0, 0)]

expired_2020 == Str(<<"2", "0", "2", "0", "-", "0", "1", "-", "0", "1">>)
valid_2999 == Str(<<"2", "9", "9", "9", "-", "1", "2", "-", "3", "1">>)

\* The structured data of the pipeline results
UploadedData ==
    {d \in ContentExtractedData :
        "fecha_vencimiento" \in DOMAIN d => d["fecha_vencimiento"] \in {expired_2020, valid_2999}}

\* What process_document returns: a completed result is approved exactly when it has
\* no observation, a failed one carries the reason of its handler
PipelineResults ==
    { ResultDict("COMPLETED", "APPROVED", <<>>, data, type)
        : data \in UploadedData, type \in DetectedTypes }
    \cup { ResultDict("COMPLETED", "REJECTED",
                <<Reason("Texto Extraido", <<"No se pudo extraer texto del documento">>)>>,
                data, type)
        : data \in UploadedData, type \in DetectedTypes }
    \cup { ResultDict("COMPLETED", "MANUAL_REVIEW",
                <<Reason("Confianza Minima", <<"Confianza del documento muy baja: ", "0.50">>)>>,
                data, type)
        : data \in UploadedData, type \in DetectedTypes }
    \cup { ResultDict("FAILED", "REJECTED",
                <<Reason("Validacion de Documento", <<"Documento no valido: ">>)>>,
                EmptyDict, desconocido),
           ResultDict("FAILED", "MANUAL_REVIEW",
                <<Reason("Error de Procesamiento", <<"Error inesperado: ">>)>>,
                EmptyDict, cedula_frontal) }

UploadedDocuments ==
    { [fileUrl |-> file, applicantData |-> applicant, expectedDocumentType |-> expected]
        : file \in {None, Str(<<"u">>)},
          applicant \in {NoApplicant} \cup {Applicant(TRUE, a) : a \in ContentApplicantData},
          expected \in ExpectedTypes }

UploadedRecords ==
    { [eventName |-> "MODIFY", image |-> FALSE, document_data |-> d]
        : d \in {d \in UploadedDocuments : d.fileUrl = None /\ d.applicantData = NoApplicant
                                             /\ d.expectedDocumentType = None} }
    \cup { r \in [eventName : {"INSERT"}, image : BOOLEAN, document_data : UploadedDocuments]
             : r.image \/ r.document_data.fileUrl = None }

Today == [year |-> 2026, month |-> 11, day |-> 1, elapsed |-> 0]

InitUploaded ==
    /\ MainIdle
    /\ poll = NoPoll
    /\ ai_call = NoAi
    /\ twin = NoInvocation
    /\ pair = NoPair
    /\ \E record \in UploadedRecords :
          service_call = [NoCall EXCEPT !.pc = "call", !.op = "uploaded_files_handler",
                              !.args = [record |-> record, now |-> Today],
                              !.out = UploadedStart]

Uploaded(at) == service_call.op = "uploaded_files_handler" /\ service_call.pc = at

\* The record is skipped unless it is an INSERT with an image that names a file
UploadedEnter ==
    /\ Uploaded("call")
    /\ LET record == service_call.args.record
       IN  IF \/ record.eventName # "INSERT"
              \/ ~record.image
              \/ ~Truthy(record.document_data.fileUrl)
           THEN service_call' = [service_call EXCEPT !.pc = "done",
                                     !.out.counts = Counts(0, 1, 0)]
           ELSE service_call' = [service_call EXCEPT !.pc = "pipeline"]
    /\ UNCHANGED CallRest

\* result = pipeline.process_document(...); result_dict = result.model_dump()
UploadedProcess ==
    /\ Uploaded("pipeline")
    /\ \E returned \in PipelineResults :
          service_call' = [service_call EXCEPT !.pc = "validate",
                                !.out.pipeline = returned, !.out.result_dict = returned]
    /\ UNCHANGED CallRest

UploadedValidate ==
    /\ Uploaded("validate")
    /\ LET r == ContentValidationStep(service_call.out.result_dict,
                                      service_call.args.record.document_data,
                                      service_call.args.now)
       IN  service_call' = [service_call EXCEPT !.pc = "rename",
                                !.out.result_dict = r.result_dict,
                                !.out.validation = r.validation]
    /\ UNCHANGED CallRest

\* The renaming of an approved file; its failure is logged and swallowed
UploadedRename ==
    /\ Uploaded("rename")
    /\ \E renaming \in Outcomes :
          service_call' = [service_call EXCEPT !.pc = "save",
                !.out.renamed = /\ ShouldRename(service_call.out.result_dict,
                                                service_call.args.record.document_data)
                                /\ renaming = "ok"]
    /\ UNCHANGED CallRest

\* save_processing_result; when it raises the record counts as failed
UploadedSave ==
    /\ Uploaded("save")
    /\ \E put \in Outcomes :
          LET items == SavedItems(service_call.out.result_dict, put)
          IN  IF items = <<>>
              THEN service_call' = [service_call EXCEPT !.pc = "done",
                                        !.out.counts = Counts(0, 0, 1)]
              ELSE service_call' = [service_call EXCEPT !.pc = "update",
                                        !.out.stored = items]
    /\ UNCHANGED CallRest

\* update_source_document_status, which swallows its exceptions
UploadedUpdateSource ==
    /\ Uploaded("update")
    /\ \E update \in Outcomes :
          service_call' = [service_call EXCEPT !.pc = "done",
                !.out.source = IF update = "ok"
                               THEN <<SourceStatus(service_call.out.result_dict)>>
                               ELSE <<>>,
                !.out.counts = Counts(1, 0, 0)]
    /\ UNCHANGED CallRest

NextUploaded ==
    \/ UploadedEnter
    \/ UploadedProcess
    \/ UploadedValidate
    \/ UploadedRename
    \/ UploadedSave
    \/ UploadedUpdateSource

SpecUploaded == InitUploaded /\ [][NextUploaded]_vars

----------------------------------------------------------------------------
(* DocumentValidator: one call of validate_document *)

InitValidator ==
    /\ MainIdle
    /\ poll = NoPoll
    /\ ai_call = NoAi
    /\ twin = NoInvocation
    /\ pair = NoPair
    /\ \E doc \in {d \in Documents : WellFormed(d)}, head \in HeadOutcomes,
          size \in SizeOutcomes :
        service_call = [NoCall EXCEPT !.pc = "call", !.op = "validate_document",
                            !.args = [document |-> doc, head |-> head, size |-> size]]

ValidateDocument ==
    /\ service_call.pc = "call"
    /\ service_call.op = "validate_document"
    /\ service_call' = [service_call EXCEPT !.pc = "done",
            !.out = validate_document(service_call.args.document, service_call.args.head,
                                      service_call.args.size)]
    /\ UNCHANGED CallRest

NextValidator == ValidateDocument

SpecValidator == InitValidator /\ [][NextValidator]_vars

----------------------------------------------------------------------------
(* What an invocation did so far, read from its state *)

Called(provider) == \E i \in 1..Len(calls) : calls[i] = provider
Notified(phase) == \E i \in 1..Len(notifications) : notifications[i].phase = phase

Returned == outcome = "returned"
\* DocumentValidator.validate_document returned invalid
ValidatorRejected == exc.type = "DocumentValidationException"
\* the OCR stage yielded its text (it writes the first log entry)
OcrYielded == contexto.processing_log # <<>>
Blank == Strip(contexto.extracted_text) = <<>>
\* the business rules ran
RulesRan == Notified("VALIDATION")
\* the identity provider returned a result (the stage stored it)
IdentityAnswered == contexto.boostr_validation.source = "boostr"
IdentityReportedInvalid == IdentityAnswered /\ ~contexto.boostr_validation.valid
\* the identity provider call raised
IdentityRaised == Called("identity") /\ ~IdentityAnswered
LastReason == contexto.rejection_reasons[Len(contexto.rejection_reasons)]

----------------------------------------------------------------------------
(* Properties *)

\* C1: process_document raises no exception: for every document descriptor and every
\* outcome of the collaborators it returns a ProcessedDocumentResult whose
\* final_decision is one of the three decisions and whose status is set.
C1_AlwaysReturnsResult ==
    pc = "done" =>
        /\ outcome = "returned"
        /\ result.final_decision \in FinalDecisionStatus
        /\ result.processing_status \in ProcessingStatus

\* C2: a returned result has status COMPLETED or FAILED, and COMPLETED only if no
\* exception reached the except clauses of process_document (FAILED otherwise).
C2_TerminalStatus ==
    Returned =>
        /\ result.processing_status \in {"COMPLETED", "FAILED"}
        /\ result.processing_status = "COMPLETED" <=> exc = NoExc

C2_Witness ==
    /\ Returned
    /\ result.processing_status = "FAILED"
    /\ exc.type = "Exception"
    /\ Called("classify")

\* C3: when the validator returns invalid, the pipeline returns status FAILED and
\* final_decision REJECTED with a reason describing the validation failure, and
\* neither the OCR provider nor any later provider is called.
C3_ValidationRejectionReturned ==
    (pc = "done" /\ ValidatorRejected) =>
        /\ Returned
        /\ result.processing_status = "FAILED"
        /\ result.final_decision = "REJECTED"
        /\ result.observations # <<>>
        /\ result.observations[Len(result.observations)].rule = "Validacion de Documento"
        /\ calls = <<"validator">>

\* C4: once the OCR text is blank and the business rules have rejected for it, the
\* decision stays REJECTED whatever a later stage does, up to the returned result.
C4_BlankTextRejectionStands ==
    (OcrYielded /\ Blank /\ RulesRan) =>
        /\ contexto.final_decision = "REJECTED"
        /\ Returned => result.final_decision = "REJECTED"

\* C5: an invocation that reaches the business rules with confidence below 0.7 and
\* non-blank text returns MANUAL_REVIEW, unless the identity stage ran and the
\* provider reported the identity invalid.
C5_LowConfidenceManualReview ==
    (Returned /\ RulesRan /\ contexto.confidence_score < MinConfidence /\ ~Blank
        /\ ~IdentityReportedInvalid)
        => result.final_decision = "MANUAL_REVIEW"

C5_Witness ==
    /\ Returned
    /\ RulesRan
    /\ contexto.confidence_score = 69
    /\ ~Blank
    /\ Called("identity")
    /\ contexto.boostr_validation.valid
    /\ result.final_decision = "MANUAL_REVIEW"

\* C6: when the type is the front-side national ID and the identity provider reports
\* valid=false, a rejection reason is appended and the decision is REJECTED from the
\* identity stage up to the returned result, even when the rules had approved.
C6_IdentityInvalidRejects ==
    IdentityReportedInvalid =>
        /\ contexto.document_type = CedulaFrontal
        /\ contexto.final_decision = "REJECTED"
        /\ contexto.rejection_reasons # <<>>
        /\ LastReason.rule = "Validacion Boostr"
        /\ pc = "done" => (Returned /\ result.final_decision = "REJECTED")

\* the rules had approved: the only reason is the one of the identity stage
C6_Witness ==
    /\ Returned
    /\ IdentityReportedInvalid
    /\ contexto.confidence_score >= MinConfidence
    /\ ~Blank
    /\ Len(result.observations) = 1
    /\ result.final_decision = "REJECTED"

\* C7: when the identity provider call raises, the identity stage appends exactly one
\* reason, whose rule is not the one of a reported-invalid identity, sets the decision
\* to MANUAL_REVIEW and lets no exception reach the except clauses; the invocation
\* ends with status COMPLETED.
C7_IdentityStageRaised ==
    (pc = "identity" /\ pc' = "complete" /\ IdentityRaised') =>
        /\ contexto'.rejection_reasons = Append(contexto.rejection_reasons, LastReason')
        /\ LastReason'.rule = "Validacion Boostr Error"
        /\ LastReason'.rule # "Validacion Boostr"
        /\ contexto'.final_decision = "MANUAL_REVIEW"
        /\ exc' = NoExc

\* C7 (whole claim): the step above, and from then on no pending exception, the
\* decision MANUAL_REVIEW and a returned result with status COMPLETED.
C7_IdentityProviderRaises ==
    /\ [][C7_IdentityStageRaised]_vars
    /\ [](IdentityRaised =>
            /\ exc = NoExc
            /\ contexto.final_decision = "MANUAL_REVIEW"
            /\ pc = "done" => (Returned /\ result.processing_status = "COMPLETED"
                                /\ result.final_decision = "MANUAL_REVIEW"))

C7_Witness ==
    /\ Returned
    /\ IdentityRaised
    /\ result.processing_status = "COMPLETED"
    /\ Len(result.observations) = 2

\* the exception came from the OCR stage or from the classification/extraction stage
StageRaised == exc.type = "Exception" /\ pc \in {"build", "done"}

\* C8: an exception of the OCR stage or of the classification/extraction stage ends the
\* invocation with status FAILED and decision MANUAL_REVIEW, exactly one reason, which
\* carries the error's text, and neither the business rules nor the identity stage run.
C8_StageErrorManualReview ==
    StageRaised =>
        /\ contexto.processing_status = "FAILED"
        /\ contexto.final_decision = "MANUAL_REVIEW"
        /\ Len(contexto.rejection_reasons) = 1
        /\ exc.msg # <<>>
        /\ contexto.rejection_reasons[1].reason = <<"Error inesperado: ">> \o exc.msg
        /\ exc.msg[1] \in {"Error en OCR: ", "Error en clasificacion: "}
        /\ ~RulesRan
        /\ ~Called("identity")
        /\ pc = "done" =>
            /\ Returned
            /\ result.processing_status = "FAILED"
            /\ result.final_decision = "MANUAL_REVIEW"
            /\ result.observations = contexto.rejection_reasons

\* the OCR backend reported 'failed'
C8_Witness ==
    /\ Returned
    /\ exc.msg = <<"Error en OCR: ", "Error inesperado en OCR: ", "El analisis OCR fallo">>
    /\ result.processing_status = "FAILED"
    /\ result.final_decision = "MANUAL_REVIEW"

\* C9: after every stage and every handler, a non-empty rejection_reasons goes with a
\* final_decision other than APPROVED.
C9_ReasonsExcludeApproved ==
    contexto.rejection_reasons # <<>> => contexto.final_decision # "APPROVED"

\* the identity stage objected after the rules had approved
C9_Witness ==
    /\ pc = "complete"
    /\ Len(contexto.rejection_reasons) = 1
    /\ LastReason.rule \in {"Validacion Boostr", "Validacion Boostr Error"}

\* The status values in the order of the stages; a transition goes to the next one,
\* from VALIDATION also straight to COMPLETED, and from any non-terminal one to FAILED.
StatusOrder ==
    <<"PENDING", "PREVALIDATION", "REVI", "CLASSIFICATION", "VALIDATION",
      "VALIDATION_IDENTIDAD_CL", "COMPLETED">>

StatusIndex(status) == CHOOSE i \in 1..Len(StatusOrder) : StatusOrder[i] = status

StatusStep(old, new) ==
    /\ old \notin {"COMPLETED", "FAILED"}
    /\ \/ new = "FAILED"
       \/ /\ new \in {StatusOrder[i] : i \in 1..Len(StatusOrder)}
          /\ \/ StatusIndex(new) = StatusIndex(old) + 1
             \/ old = "VALIDATION" /\ new = "COMPLETED"

\* C10: within an invocation the status starts at PENDING and changes only by a step
\* of the stage order (VALIDATION_IDENTIDAD_CL optional) or to FAILED; it never moves
\* back and never changes once it is COMPLETED or FAILED.
C10_StatusMovesForward ==
    /\ contexto.processing_status = "PENDING"
    /\ [][contexto'.processing_status # contexto.processing_status
            => StatusStep(contexto.processing_status, contexto'.processing_status)]_vars

C10_Witness ==
    /\ contexto.processing_status = "COMPLETED"
    /\ Notified("IDENTITY_VALIDATION")
    /\ Len(notifications) = 6

\* C11: structured_data is non-empty only if document_type is not 'Desconocido': the
\* field extraction is called only after the classification resolved another type,
\* and otherwise structured_data stays empty.
C11_StructuredDataOnlyForKnownType ==
    /\ contexto.structured_data # EmptyDict => contexto.document_type # Desconocido
    /\ Called("extract") => contexto.document_type # Desconocido
    /\ ~Called("extract") => contexto.structured_data = EmptyDict

C11_Witness ==
    /\ Called("extract")
    /\ contexto.structured_data # EmptyDict
    /\ contexto.document_type = CedulaReverso

\* The rule names of the reasons the step appends to rejection_reasons.
AppendedRules ==
    [i \in 1..(Len(contexto'.rejection_reasons) - Len(contexto.rejection_reasons)) |->
        contexto'.rejection_reasons[Len(contexto.rejection_reasons) + i].rule]

C13_ApprovedIffNoReason ==
    [][pc = "rules"
        => /\ contexto'.final_decision = "APPROVED"
                <=> (contexto.confidence_score >= MinConfidence /\ ~Blank)
           /\ contexto'.final_decision = "APPROVED" <=> AppendedRules = <<>>]_vars

C13_Witness ==
    /\ contexto.processing_status = "VALIDATION"
    /\ contexto.confidence_score = MinConfidence
    /\ contexto.final_decision = "APPROVED"
    /\ contexto.rejection_reasons = <<>>

\* C14: the identity-validation provider is called if and only if the invocation
\* passed the business-rules stage with document_type equal to the front side of the
\* national identity card; for every other document type the status
\* VALIDATION_IDENTIDAD_CL is never set and the provider is never called.
C14_IdentityOnlyForCedulaFrontal ==
    /\ Called("identity") => RulesRan /\ contexto.document_type = CedulaFrontal
    /\ RulesRan /\ contexto.document_type = CedulaFrontal /\ pc # "identity"
            => Called("identity")
    /\ contexto.document_type # CedulaFrontal
            => /\ ~Called("identity")
               /\ ~Called("boostr_http")
               /\ ~Notified("IDENTITY_VALIDATION")
               /\ contexto.processing_status # "VALIDATION_IDENTIDAD_CL"

C14_Witness ==
    /\ Returned
    /\ RulesRan
    /\ contexto.document_type = CedulaReverso
    /\ contexto.processing_status = "COMPLETED"
    /\ ~Called("identity")

\* the other side of C14: the front side of the card reaches the provider
C14_WitnessCalled ==
    /\ Returned
    /\ contexto.document_type = CedulaFrontal
    /\ Called("identity")

\* C16: every stage transition of an invocation, the one to FAILED included, triggers
\* one progress-notification attempt carrying the status just set, made before the
\* next status change or the return of process_document: whenever the status is not
\* the initial one, the last notification attempt carries it, and there are as many
\* attempts as status changes.
C16_EveryTransitionNotified ==
    contexto.processing_status # "PENDING" =>
        /\ notifications # <<>>
        /\ notifications[Len(notifications)].processingStatus = contexto.processing_status
        /\ contexto.processing_status = "FAILED" => Notified("FAILED")

\* The place of each external call in the fixed order of process_document.
ProviderOrder == <<"validator", "ocr", "classify", "extract", "identity", "boostr_http">>

ProviderRank(provider) == CHOOSE i \in 1..Len(ProviderOrder) : ProviderOrder[i] = provider

\* C17: within one invocation each external provider (document validator, OCR,
\* classification, field extraction, identity validation) is invoked at most once and
\* only in that order; a failed call is never retried and after a failure no stage
\* runs again (no further call, no further notification, control goes to the return).
C17_ProvidersOnceInOrder ==
    /\ [](\A i, j \in 1..Len(calls) :
            i < j => ProviderRank(calls[i]) < ProviderRank(calls[j]))
    /\ [][pc = "except"
            => calls' = calls /\ notifications' = notifications /\ pc' = "build"]_vars

C17_Witness ==
    /\ Returned
    /\ contexto.processing_status = "FAILED"
    /\ calls = <<"validator", "ocr", "classify", "extract">>

\* all five providers called, once each
C17_WitnessAll ==
    /\ Returned
    /\ calls = <<"validator", "ocr", "classify", "extract", "identity", "boostr_http">>

PollEnded == poll.pc \in {"returned", "raised"}

\* C19: the OCR result poll loop terminates for every backend behaviour: it returns the
\* parsed result on the first poll that reports 'succeeded', raises an extraction error
\* at once (no further poll) on the first poll that reports 'failed', raises a timeout
\* error after 30 consecutive non-terminal polls, and never issues more than 30 polls.
C19_PollLoopTerminates ==
    /\ <>PollEnded
    /\ [](poll.polls <= max_attempts)
    /\ [](poll.last.kind = "succeeded"
            => poll.pc = "returned" /\ poll.value = _parse_ocr_result(poll.last.lines))
    /\ [](poll.last.kind = "failed"
            => poll.pc = "raised" /\ poll.exc.msg = <<"El analisis OCR fallo">>)
    /\ [](poll.pc = "loop" => poll.polls = poll.attempt /\ poll.last.kind \in {"none", "running"})
    /\ [](poll.exc.msg = <<"Timeout esperando resultados de OCR">>
            <=> poll.pc = "raised" /\ poll.last.kind = "running" /\ poll.polls = max_attempts)
    /\ [][PollEnded => poll' = poll]_vars

C19_Witness ==
    /\ poll.pc = "raised"
    /\ poll.exc.msg = <<"Timeout esperando resultados de OCR">>
    /\ poll.polls = max_attempts

C19_WitnessSucceeded ==
    /\ poll.pc = "returned"
    /\ poll.polls = max_attempts
    /\ poll.value.lines_count = 2

C19_WitnessFailed ==
    /\ poll.pc = "raised"
    /\ poll.last.kind = "failed"
    /\ poll.polls = 3

\* C20: for any reply of the backend that is not valid JSON, classify_document returns
\* document_type 'Desconocido' with confidence 0.0 without raising,
\* extract_structured_data returns an empty mapping without raising, and each makes
\* exactly one backend call.
C20_UnparseableReplyFallsBack ==
    ai_call.pc = "done" /\ ai_call.transport_ok /\ ~ValidJson(ai_call.text) =>
        /\ ai_call.out.exc = NoExc
        /\ ai_call.out.posts = 1
        /\ ai_call.op = "classify" =>
                /\ Get(ai_call.out.value, "document_type", None) = Desconocido
                /\ Get(ai_call.out.value, "confidence", None) = 0
        /\ ai_call.op = "extract" => ai_call.out.value = EmptyDict

\* a reply that opens like an object and is not JSON, classified
C20_Witness ==
    /\ ai_call.pc = "done"
    /\ ai_call.op = "classify"
    /\ ai_call.transport_ok
    /\ ai_call.text = <<"{", "x", "}">>
    /\ ai_call.out.posts = 1

\* a reply in prose, extracted
C20_WitnessExtract ==
    /\ ai_call.pc = "done"
    /\ ai_call.op = "extract"
    /\ ai_call.transport_ok
    /\ ai_call.text = <<"x", "x">>
    /\ ai_call.out.value = EmptyDict

\* A run without the mark of which notification attempts failed.
WithoutDelivery(st) ==
    [st EXCEPT !.notifications = [i \in DOMAIN @ |-> [@[i] EXCEPT !.delivered = TRUE]]]

Failures(st) == {i \in DOMAIN st.notifications : ~st.notifications[i].delivered}

\* C15: notification failures never abort or alter the pipeline: two runs of
\* process_document with the same inputs and the same provider outcomes that differ
\* only in which notification attempts fail go through the same status values and
\* return the same result (status, final_decision, observations, document_type,
\* structured data); apart from the failures their states are equal at every step.
C15_NotificationFailuresChangeNothing ==
    /\ WithoutDelivery(twin) = WithoutDelivery(Cur)
    /\ twin.contexto.processing_status = contexto.processing_status
    /\ twin.outcome = outcome
    /\ twin.result = result

C15_Witness ==
    /\ Returned
    /\ contexto.processing_status = "COMPLETED"
    /\ Len(notifications) = 6
    /\ Failures(Cur) = {}
    /\ Failures(twin) = 1..6

\* runs that fail on different attempts and end FAILED
C15_WitnessFailed ==
    /\ Returned
    /\ contexto.processing_status = "FAILED"
    /\ Len(notifications) = 2
    /\ Failures(Cur) = {}
    /\ Failures(twin) = {2}

\* The objects invocation i holds: its context and the two lists of the context.
Held(i) ==
    IF pair.inv[i].contexto = 0 THEN {}
    ELSE LET d == pair.heap[pair.inv[i].contexto]
         IN  {pair.inv[i].contexto, d.rejection_reasons, d.processing_log}

\* C18: when two process_document invocations on the same pipeline object are
\* interleaved, each returns exactly the result it would return when run alone, and
\* no context field (status, final_decision, rejection_reasons list, processing_log
\* list, structured_data) is shared between them: the two hold disjoint objects, and
\* each one's context, position and result equal those of its run alone at every step.
C18_InterleavedInvocationsAreIndependent ==
    /\ Held(1) \cap Held(2) = {}
    /\ \A i \in Invocations :
        /\ pair.inv[i].contexto # 0 => PairSt(i) = pair.alone[i]
        /\ pair.inv[i].outcome = pair.alone[i].outcome
        /\ pair.inv[i].result = pair.alone[i].result

\* both returned, the first rejected with two reasons and the second approved
C18_Witness ==
    /\ \A i \in Invocations : pair.inv[i].outcome = "returned"
    /\ pair.inv[1].contexto = 3
    /\ pair.inv[2].contexto = 6
    /\ Len(PairSt(1).contexto.rejection_reasons) = 2
    /\ PairSt(2).contexto.rejection_reasons = <<>>
    /\ pair.inv[1].result.final_decision = "REJECTED"
    /\ pair.inv[2].result.final_decision = "APPROVED"

\* the second invocation entered first and is between two stages, with a reason in
\* its list, when the first one returns with none
C18_WitnessInterleaved ==
    /\ pair.inv[2].contexto = 3
    /\ pair.inv[2].pc = "identity"
    /\ Len(PairSt(2).contexto.rejection_reasons) = 1
    /\ pair.inv[1].outcome = "returned"
    /\ pair.inv[1].result.observations = <<>>

\* the classification stage ended with the type unknown, confidence 0.0 and some text
ClassifiedUnknown ==
    /\ Notified("CLASSIFICATION")
    /\ contexto.document_type = Desconocido
    /\ contexto.confidence_score = 0
    /\ ~Blank

\* C21: when classification yields 'Desconocido' with confidence 0.0 and the extracted
\* text is not blank, field extraction is not called, the business rules append exactly
\* one reason (low confidence), identity validation is skipped, and the invocation
\* returns final_decision MANUAL_REVIEW with status COMPLETED, not FAILED.
C21_UnknownTypeManualReview ==
    ClassifiedUnknown =>
        /\ ~Called("extract")
        /\ ~Called("identity")
        /\ pc \notin {"identity", "except"}
        /\ contexto.processing_status # "FAILED"
        /\ RulesRan =>
            /\ Len(contexto.rejection_reasons) = 1
            /\ contexto.rejection_reasons[1].rule = "Confianza Minima"
            /\ contexto.final_decision = "MANUAL_REVIEW"
        /\ pc = "done" =>
            /\ Returned
            /\ result.final_decision = "MANUAL_REVIEW"
            /\ result.processing_status = "COMPLETED"
            /\ Len(result.observations) = 1

C21_Witness ==
    /\ ClassifiedUnknown
    /\ Returned
    /\ result.final_decision = "MANUAL_REVIEW"
    /\ result.processing_status = "COMPLETED"
    /\ calls = <<"validator", "ocr", "classify">>

Done(op) == service_call.pc = "done" /\ service_call.op = op

\* C22: validate_rut maps the HTTP outcome for every response: status 200 returns the
\* valid / confidence / details of the body; status 404 returns a result with
\* valid = false, confidence 0.0 and details.error set, without raising; every other
\* status, and every transport failure, raises.
C22_ValidateRutStatusMapping ==
    Done("validate_rut") =>
        LET http == service_call.args.http
            out == service_call.out
        IN  /\ http.status = "200" =>
                /\ out.exc = NoExc
                /\ out.value.valid = Get(http.body, "valid", FALSE)
                /\ out.value.confidence = Get(http.body, "confidence", 0)
                /\ out.value.details = Get(http.body, "details", EmptyDict)
            /\ http.status = "404" =>
                /\ out.exc = NoExc
                /\ out.value.valid = FALSE
                /\ out.value.confidence = 0
                /\ "error" \in DOMAIN out.value.details
            /\ http.status \notin {"200", "404"} => out.exc # NoExc

C22_Witness ==
    /\ Done("validate_rut")
    /\ service_call.args.http.status = "404"
    /\ service_call.out.exc = NoExc
    /\ ~service_call.out.value.valid

C22_WitnessRaises ==
    /\ Done("validate_rut")
    /\ service_call.args.http.status = "503"
    /\ service_call.out.exc # NoExc

\* The id number the data give: rut, else numero_documento; None when neither is set.
DerivedRut(data) ==
    IF Truthy(Get(data, "rut", None)) THEN data["rut"]
    ELSE IF Truthy(Get(data, "numero_documento", None)) THEN data["numero_documento"]
    ELSE None

\* The non-empty ones of the first name, paternal and maternal surname, in that order.
NameParts(data) ==
    SelectSeq(<<Get(data, "nombre", None), Get(data, "apellido_paterno", None),
                Get(data, "apellido_materno", None)>>, Truthy)

RECURSIVE SpaceJoined(_)
SpaceJoined(parts) ==
    IF parts = <<>> THEN <<>>
    ELSE IF Len(parts) = 1 THEN parts[1].s
    ELSE parts[1].s \o <<" ">> \o SpaceJoined(Tail(parts))

\* The full name the data give: the joined-name field when present, else the parts
\* joined by single spaces; None when there is none.
DerivedName(data) ==
    IF "nombre_completo" \in DOMAIN data
    THEN (IF Truthy(data["nombre_completo"]) THEN data["nombre_completo"] ELSE None)
    ELSE IF NameParts(data) = <<>> THEN None
    ELSE Str(SpaceJoined(NameParts(data)))

\* C23: validate_from_extracted_data never raises and makes no network call when the
\* id number (rut or the fallback field) or the full name cannot be derived from the
\* data, returning a synthetic result with valid = false; the full name is the
\* joined-name field when present, otherwise the non-empty first / paternal / maternal
\* parts joined by single spaces; a network call is made exactly when both were derived.
C23_SyntheticWhenUnderivable ==
    Done("validate_from_extracted_data") =>
        LET data == service_call.args.extracted_data
            out == service_call.out
            derived == DerivedRut(data) # None /\ DerivedName(data) # None
        IN  /\ out.posted <=> derived
            /\ ~derived =>
                /\ out.exc = NoExc
                /\ out.value.valid = FALSE
                /\ "error" \in DOMAIN out.value.details
            /\ derived => out.payload.nombre = DerivedName(data).s

\* no id number, a name in three parts: no call
C23_Witness ==
    /\ Done("validate_from_extracted_data")
    /\ DerivedRut(service_call.args.extracted_data) = None
    /\ DerivedName(service_call.args.extracted_data) # None
    /\ DOMAIN service_call.args.extracted_data = IdentityKeys \ {"nombre_completo"}
    /\ ~service_call.out.posted
    /\ service_call.out.exc = NoExc

\* the fallback id number and the three parts: the call carries the joined name
C23_WitnessPosted ==
    /\ Done("validate_from_extracted_data")
    /\ service_call.out.posted
    /\ "rut" \notin DOMAIN service_call.args.extracted_data
    /\ service_call.out.payload.nombre = <<"J", "u", "a", "n", " ", "P", "e", "r", "e", "z", " ",
                                           "S", "o", "t", "o">>

\* The file name ends, whatever the case of its letters, with an allowed extension.
HasAllowedExtension(doc) ==
    /\ "file_name" \in DOMAIN doc
    /\ IsStr(doc["file_name"])
    /\ \E ext \in ALLOWED_DOCUMENT_EXTENSIONS : EndsWith(Lower(doc["file_name"].s), ext)

\* The size the content-length header reports is unavailable or within the maximum.
SizeAcceptable(size) == size \in {"absent", "error"} \/ SizeMB(size) <= MAX_FILE_SIZE_MB

\* C24: validate_document returns is_valid = true if and only if file_url is present,
\* the URL probe succeeds, the file name ends (case-insensitively) with an allowed
\* extension and the reported size is unavailable or not above the maximum; in every
\* other case it returns is_valid = false with a message instead of raising.
C24_ValidIffAllChecksPass ==
    Done("validate_document") =>
        LET a == service_call.args
            out == service_call.out
        IN  /\ out.exc = NoExc
            /\ out.is_valid <=>
                /\ Truthy(Get(a.document, "file_url", None))
                /\ a.head = "200"
                /\ HasAllowedExtension(a.document)
                /\ SizeAcceptable(a.size)
            /\ ~out.is_valid => out.message # <<>>

\* The observations the checks of a call of validate_document_content produce, one
\* for each check that runs (the type check produces one only on a mismatch)
Produced(inputs, now) ==
    LET e == inputs.extracted_data
        a == inputs.applicant_data
        type == CheckType(Tally(<<>>, 0, 0), inputs.expected_document_type,
                          inputs.document_type).observations
        rut_ran == Truthy(Get(a, "rut", None)) /\ Truthy(Get(e, "rut", None))
        name_ran == Truthy(Get(a, "nombre", None)) /\ Truthy(Get(e, "nombre", None))
        expiry_ran == Truthy(Get(e, "fecha_vencimiento", None))
    IN  [type |-> type,
         rut |-> IF rut_ran THEN <<_validate_rut(e["rut"], a["rut"]).obs>> ELSE <<>>,
         name |-> IF name_ran
                  THEN <<_validate_name(Get(e, "nombre", Str(<<>>)),
                                        Get(e, "apellido_paterno", Str(<<>>)),
                                        Get(e, "apellido_materno", Str(<<>>)),
                                        a["nombre"]).obs>>
                  ELSE <<>>,
         expiry |-> IF expiry_ran
                    THEN <<_validate_expiry(e["fecha_vencimiento"], now).obs>>
                    ELSE <<>>]

\* The layers of the observations the checks produced
Layers(p) ==
    {p[c][1].capa : c \in {c \in {"type", "rut", "name", "expiry"} : p[c] # <<>>}}

\* The first call of validate_document_content has returned
Validated == Done("validate_document_content")

SummaryLayer(decision) ==
    CASE decision = "REJECTED" -> "critical"
      [] decision = "MANUAL_REVIEW" -> "warning"
      [] decision = "APPROVED" -> "success"

\* C25: validate_document_content returns REJECTED if and only if at least one check
\* produced a critical observation, MANUAL_REVIEW if and only if no check is critical
\* and at least one produced a warning, and APPROVED otherwise; the first of the
\* returned observations is a summary whose layer matches the decision.
C25_DecisionPolicy ==
    Validated =>
        LET layers == Layers(Produced(service_call.args.given, service_call.args.now))
            r == service_call.out[1]
        IN  /\ r.decision = "REJECTED" <=> "critical" \in layers
            /\ r.decision = "MANUAL_REVIEW" <=> ("critical" \notin layers /\ "warning" \in layers)
            /\ r.decision = "APPROVED" <=> layers \cap {"critical", "warning"} = {}
            /\ r.observations # <<>>
            /\ r.observations[1].capa = SummaryLayer(r.decision)

\* The call was given an expiry date that is a non-empty string
ExpiryGiven == Truthy(Get(service_call.args.given.extracted_data, "fecha_vencimiento", None))

GivenExpiry == service_call.args.given.extracted_data["fecha_vencimiento"]

\* C26: when the expiry-date string matches none of the four formats and no other
\* check is critical, validate_document_content returns a warning observation for
\* the expiry check and the decision MANUAL_REVIEW.
C26_UnparseableExpiryManualReview ==
    (/\ Validated
     /\ ExpiryGiven
     /\ TryFormats(GivenExpiry.s, 1) = NoDate
     /\ "critical" \notin Layers(Produced(service_call.args.given, service_call.args.now)))
    => LET r == service_call.out[1]
       IN  /\ r.decision = "MANUAL_REVIEW"
           /\ \E i \in 2..Len(r.observations) :
                /\ r.observations[i].capa = "warning"
                /\ r.observations[i].message = <<"Could not verify expiry date">>

\* The place of a date in the calendar order
DateOrder(d) == (d.year * 12 + d.month) * 31 + d.day

\* The midnight of date d is earlier than the time now
Earlier(d, now) ==
    \/ DateOrder(d) < DateOrder(now)
    \/ DateOrder(d) = DateOrder(now) /\ now.elapsed > 0

\* The given expiry string parses under one of the four formats to a date before now
ExpiryParsesToPast ==
    /\ ExpiryGiven
    /\ \E i \in 1..Len(formats_to_try) :
         LET d == strptime(GivenExpiry.s, formats_to_try[i])
         IN  d # NoDate /\ Earlier(d, service_call.args.now)

ReportsExpired(r) ==
    \E i \in 2..Len(r.observations) :
        /\ r.observations[i].capa = "critical"
        /\ r.observations[i].message = <<"Document expired">>

\* C27: when the expiry-date string parses under one of the four formats to a date
\* before the current time, validate_document_content returns a critical
\* 'Document expired' observation and the decision REJECTED, whatever the other
\* checks yield.
C27_PastExpiryRejected ==
    (Validated /\ ExpiryParsesToPast)
    => /\ service_call.out[1].decision = "REJECTED"
       /\ ReportsExpired(service_call.out[1])

\* A date of the third format, years before now, rejected with no other check critical
C27_Witness ==
    /\ Validated
    /\ ExpiryParsesToPast
    /\ GivenExpiry = Str(<<"0", "1", "/", "0", "1", "/", "2", "0", "2", "0">>)
    /\ service_call.args.now.year = 2026
    /\ Len(service_call.out[1].observations) = 2
    /\ ReportsExpired(service_call.out[1])

\* A document that expires today is expired once midnight has passed
C27_WitnessToday ==
    /\ Validated
    /\ ExpiryParsesToPast
    /\ GivenExpiry = Str(<<"2", "0", "2", "6", "-", "1", "1", "-", "0", "1">>)
    /\ service_call.args.now = [year |-> 2026, month |-> 11, day |-> 1, elapsed |-> 1]
    /\ service_call.out[1].decision = "REJECTED"

\* Both calls of validate_document_content have returned
ValidatedTwice == service_call.pc = "twice" /\ service_call.op = "validate_document_content"

C28_WitnessApproved ==
    /\ ValidatedTwice
    /\ service_call.out[2].decision = "APPROVED"
    /\ DOMAIN service_call.args.given.extracted_data =
           {"rut", "nombre", "apellido_paterno", "fecha_vencimiento"}

\* The call of _validate_name has returned
Named == Done("_validate_name")

\* The extracted full name the call built from its three parts
ExtractedFull ==
    JoinParts(<<service_call.args.extracted_nombre, service_call.args.extracted_apellido_paterno,
                service_call.args.extracted_apellido_materno>>)

\* The similarity the code computes for two names
Similarity(name1, name2) ==
    _calculate_name_similarity(_normalize_name(name1), _normalize_name(name2))

\* The set of normalized words of a name
TokenSet(name) == ToSet(Split(_normalize_name(name)))

\* The name made of the words ws
Named_(ws) == Str(Join(<<" ">>, ws))

\* The words w in another order: every order of up to four words, every exchange
\* of two words of a longer name
Reordered(w) ==
    LET n == Len(w)
    IN  IF n <= 4
        THEN {[i \in 1..n |-> w[f[i]]] : f \in {g \in [1..n -> 1..n] : \A i, j \in 1..n : g[i] = g[j] => i = j}}
        ELSE {[k \in 1..n |-> IF k = i THEN w[j] ELSE IF k = j THEN w[i] ELSE w[k]] :
                i \in 1..n, j \in 1..n}

\* The words w with one of them said once more, at any place
Repeated(w) ==
    {SubSeq(w, 1, at) \o <<w[i]>> \o SubSeq(w, at + 1, Len(w)) : i \in 1..Len(w), at \in 0..Len(w)}

\* The similarity of the call is that of every reordering or repetition of the words
\* of either name, and that of the two names exchanged
SimilarityOfWordSets ==
    LET a == ExtractedFull
        b == service_call.args.expected_full_name
        sim == service_call.out.obs.extra.similarity
    IN  /\ FloatEq(sim, Similarity(a, b))
        /\ \A w \in Reordered(Split(a.s)) \cup Repeated(Split(a.s)) :
                FloatEq(Similarity(Named_(w), b), sim)
        /\ \A w \in Reordered(Split(b.s)) \cup Repeated(Split(b.s)) :
                FloatEq(Similarity(a, Named_(w)), sim)
        /\ FloatEq(Similarity(b, a), sim)

\* C29: name similarity is unchanged by any permutation or repetition of the words
\* of either name, symmetric in its two arguments, and 1.0 whenever the two token
\* sets are equal.
C29_SimilarityOfWordSets ==
    Named =>
        /\ SimilarityOfWordSets
        /\ TokenSet(ExtractedFull) = TokenSet(service_call.args.expected_full_name)
             => FloatEq(service_call.out.obs.extra.similarity, Float(1, 1))

\* C29 (amended): name similarity is unchanged by any permutation or repetition of
\* the words of either name, symmetric in its two arguments, 1.0 whenever the two
\* token sets are equal and not empty, and 0.0 when either is empty.
C29_SimilarityOfNonEmptyWordSets ==
    Named =>
        LET A == TokenSet(ExtractedFull)
            B == TokenSet(service_call.args.expected_full_name)
            sim == service_call.out.obs.extra.similarity
        IN  /\ SimilarityOfWordSets
            /\ (A = B /\ A # {}) => FloatEq(sim, Float(1, 1))
            /\ (A = {} \/ B = {}) => FloatEq(sim, Float(0, 1))

\* Two names of the same three words in different orders, cases and accents
C29_Witness ==
    /\ Named
    /\ service_call.args.extracted_nombre = soto_juan
    /\ service_call.args.extracted_apellido_paterno = perez_accent
    /\ service_call.args.extracted_apellido_materno = None
    /\ service_call.args.expected_full_name =
           Str(<<"J", "u", "a", "n", " ", "p", "e", "r", "e", "z", " ", "S", "o", "t", "o">>)
    /\ FloatEq(service_call.out.obs.extra.similarity, Float(1, 1))

\* Two names without words
C29_WitnessEmpty ==
    /\ Named
    /\ TokenSet(ExtractedFull) = {}
    /\ TokenSet(service_call.args.expected_full_name) = {}
    /\ FloatEq(service_call.out.obs.extra.similarity, Float(0, 1))

\* The Jaccard similarity |A \cap B| / |A \cup B| is at least seven tenths
JaccardAtLeastSevenTenths(A, B) ==
    /\ A \cup B # {}
    /\ 10 * Cardinality(A \cap B) >= 7 * Cardinality(A \cup B)

\* C30: the name check passes exactly when the Jaccard similarity of the extracted
\* name's word set (first name and both surnames) and the expected full name's word
\* set is at least 0.7; any lower value, an empty word set on either side included,
\* yields a critical 'Name mismatch' observation.
C30_NamePassesFromSevenTenths ==
    Named =>
        LET A == TokenSet(ExtractedFull)
            B == TokenSet(service_call.args.expected_full_name)
            out == service_call.out
        IN  /\ out.ok <=> JaccardAtLeastSevenTenths(A, B)
            /\ out.ok => out.obs.capa = "success"
            /\ ~out.ok => /\ out.obs.capa = "critical"
                          /\ out.obs.message = <<"Name mismatch">>
            /\ (A = {} \/ B = {}) => ~out.ok

\* Seven of the ten words of the expected name: exactly 0.7, and the check passes
C30_Witness ==
    /\ Named
    /\ Cardinality(TokenSet(ExtractedFull)) = 7
    /\ Cardinality(TokenSet(service_call.args.expected_full_name)) = 10
    /\ service_call.out.obs.extra.similarity = Float(7, 10)
    /\ service_call.out.ok

\* Two of three words: below 0.7, a critical observation
C30_WitnessBelow ==
    /\ Named
    /\ service_call.out.obs.extra.similarity = Float(2, 3)
    /\ ~service_call.out.ok
    /\ service_call.out.obs.capa = "critical"

\* An expected name of whitespace only against an extracted name: critical
C30_WitnessEmpty ==
    /\ Named
    /\ TokenSet(ExtractedFull) # {}
    /\ service_call.args.expected_full_name = Str(<<" ", " ">>)
    /\ ~service_call.out.ok

CaseOf(c) == IF c = "K" THEN "k" ELSE c

Separators == {".", "-", " ", "\n", "\t"}

RECURSIVE SameButSeparators(_, _)
\* The characters of a and b differ only in separators, whitespace or letter case
SameButSeparators(a, b) ==
    IF a # <<>> /\ Head(a) \in Separators THEN SameButSeparators(Tail(a), b)
    ELSE IF b # <<>> /\ Head(b) \in Separators THEN SameButSeparators(a, Tail(b))
    ELSE IF a = <<>> \/ b = <<>> THEN a = b
    ELSE CaseOf(Head(a)) = CaseOf(Head(b)) /\ SameButSeparators(Tail(a), Tail(b))

\* C31: the id-number check judges two id numbers equal exactly when they differ
\* only in '.', '-', whitespace or letter case, any other difference is a critical
\* 'RUT mismatch', and normalization is idempotent.
C31_RutComparedNormalized ==
    (/\ Done("_validate_rut")
     /\ IsStr(service_call.args.extracted_rut)
     /\ IsStr(service_call.args.expected_rut))
    => LET a == service_call.args.extracted_rut
           b == service_call.args.expected_rut
           out == service_call.out
       IN  /\ out.ok <=> SameButSeparators(a.s, b.s)
           /\ out.ok => out.obs.capa = "success"
           /\ ~out.ok => /\ out.obs.capa = "critical"
                         /\ out.obs.message = <<"RUT mismatch">>
           /\ _normalize_rut(Str(_normalize_rut(a))) = _normalize_rut(a)
           /\ _normalize_rut(Str(_normalize_rut(b))) = _normalize_rut(b)

\* '12.345.678-9' against '123456789': equal
C31_Witness ==
    /\ Done("_validate_rut")
    /\ service_call.args.extracted_rut = rut_dotted
    /\ service_call.args.expected_rut = rut_plain
    /\ service_call.out.ok

\* '-K ' against '1.K': another character, a critical mismatch
C31_WitnessMismatch ==
    /\ Done("_validate_rut")
    /\ service_call.args.extracted_rut = Str(<<"-", "K", " ">>)
    /\ service_call.args.expected_rut = Str(<<"1", ".", "K">>)
    /\ ~service_call.out.ok
    /\ service_call.out.obs.capa = "critical"

\* 'K-1' against 'k1': equal but for a separator and the case
C31_WitnessCase ==
    /\ Done("_validate_rut")
    /\ service_call.args.extracted_rut = Str(<<"K", "-", "1">>)
    /\ service_call.args.expected_rut = Str(<<"k", "1">>)
    /\ service_call.out.ok

\* The families a type name belongs to: identity card, license, passport
Families(type) ==
    LET t == Lower(type.s)
    IN  {f \in {"id card", "license", "passport"} :
            \/ f = "id card" /\ \/ Contains(t, cedula)
                                \/ Contains(t, cedula_acute)
                                \/ Contains(t, identidad)
            \/ f = "license" /\ Contains(t, licencia)
            \/ f = "passport" /\ Contains(t, pasaporte)}

NamesFront(type) == Contains(Lower(type.s), frontal)
NamesReverse(type) == Contains(Lower(type.s), reverso)

\* One names the front side and the other the reverse side
SideMismatch(e, d) ==
    \/ NamesFront(e) /\ NamesReverse(d)
    \/ NamesReverse(e) /\ NamesFront(d)

MismatchReported(tally) ==
    /\ tally.critical_errors = 1
    /\ Len(tally.observations) = 1
    /\ tally.observations[1].capa = "critical"
    /\ tally.observations[1].message = <<"Document type mismatch">>

\* C32: the type check passes when expected and detected type are exactly equal;
\* otherwise it passes when both belong to the same family unless one names the
\* front side and the other the reverse side; every other pair fails with a
\* critical observation.
C32_TypeFamilies ==
    Done("_types_match") =>
        LET e == service_call.args.expected
            d == service_call.args.detected
            out == service_call.out
            passes == \/ e = d
                      \/ Families(e) \cap Families(d) # {} /\ ~SideMismatch(e, d)
        IN  /\ out.ok <=> passes
            /\ out.ok => out.tally.observations = <<>>
            /\ ~out.ok => MismatchReported(out.tally)

IsPrefix(a, b) == Len(a) <= Len(b) /\ SubSeq(b, 1, Len(a)) = a

\* C33: rejection_reasons is append-only within an invocation: after any stage or
\* handler its previous content is a prefix of its new content, and the result's
\* observations are the final rejection_reasons in append order.
C33_ReasonsAppendOnly ==
    /\ [][IsPrefix(contexto.rejection_reasons, contexto'.rejection_reasons)]_vars
    /\ [](Returned => result.observations = contexto.rejection_reasons)

\* Both rules and the identity stage appended a reason, and the result lists the three
C33_Witness ==
    /\ Returned
    /\ Len(result.observations) = 3
    /\ result.observations[1].rule = "Confianza Minima"
    /\ result.observations[3].rule \in {"Validacion Boostr", "Validacion Boostr Error"}

\* A handler appended the only reason
C33_WitnessHandler ==
    /\ Returned
    /\ result.processing_status = "FAILED"
    /\ Len(result.observations) = 1
    /\ result.observations[1].rule = "Error de Procesamiento"

\* A request to the processing endpoint whose body holds an empty documents list
EmptyDocumentsRequest ==
    /\ service_call.op = "handler"
    /\ service_call.args.event.path = process_path
    /\ service_call.args.event.httpMethod = "POST"
    /\ service_call.args.event.body.kind = "object"
    /\ Get(service_call.args.event.body.value, "documents", None) = List(<<>>)

\* A construction of PlatformProcessRequest from data whose documents list is empty
EmptyDocumentsConstruction ==
    /\ service_call.op = "PlatformProcessRequest"
    /\ Get(service_call.args.data, "documents", None) = List(<<>>)

\* C34: a process request whose documents list is empty is rejected: the
\* construction of PlatformProcessRequest raises a validation error, and the API
\* handler answers 400 and at no moment stores or processes a document.
C34_EmptyDocumentsRejected ==
    /\ EmptyDocumentsConstruction /\ service_call.pc = "done"
          => service_call.out.exc.type = "ValidationError"
    /\ EmptyDocumentsRequest
          => /\ service_call.out.stored = <<>>
             /\ service_call.out.updated = <<>>
             /\ service_call.out.posted = <<>>
             /\ service_call.pc \in {"call", "done"}
             /\ service_call.pc = "done" => service_call.out.response.statusCode = 400

\* An empty documents list with a valid owner name was answered 400
C34_Witness ==
    /\ EmptyDocumentsRequest
    /\ service_call.pc = "done"
    /\ ApiOwnerOf(service_call) = carlos_lopez
    /\ service_call.args.aws = "ok"
    /\ service_call.out.response = Response(400, "owner_user_name and documents are required")

\* The construction from an empty list and a valid owner name raised
C34_WitnessConstruction ==
    /\ EmptyDocumentsConstruction
    /\ service_call.pc = "done"
    /\ Get(service_call.args.data, "owner_user_name", None) = carlos_lopez
    /\ service_call.out.exc.type = "ValidationError"

\* A request with documents was stored, processed and answered 200
C34_WitnessProcessed ==
    /\ Done("handler")
    /\ service_call.out.response.statusCode = 200
    /\ Len(service_call.out.stored) = 2
    /\ Len(service_call.out.updated) = 1


\* C35: in every result returned by process_document, final_decision is APPROVED if
\* and only if observations is empty, and an APPROVED result has status COMPLETED.
C35_ApprovedIffNoObservation ==
    Returned
        => /\ result.final_decision = "APPROVED" <=> result.observations = <<>>
           /\ result.final_decision = "APPROVED" => result.processing_status = "COMPLETED"

\* An approved result was returned
C35_Witness ==
    /\ Returned
    /\ result.final_decision = "APPROVED"
    /\ result.observations = <<>>
    /\ result.processing_status = "COMPLETED"

\* A completed result that is not approved was returned
C35_WitnessCompletedNotApproved ==
    /\ Returned
    /\ result.processing_status = "COMPLETED"
    /\ result.final_decision = "MANUAL_REVIEW"
    /\ result.observations # <<>>

\* A failed result was returned
C35_WitnessFailed ==
    /\ Returned
    /\ result.processing_status = "FAILED"
    /\ result.final_decision = "REJECTED"
    /\ result.observations # <<>>


\* The last observation of the returned result
LastObservation == result.observations[Len(result.observations)]

\* The exception the invocation caught was a document-validation rejection
ValidationRejection == exc.type = "DocumentValidationException"

\* C36: every returned result with status FAILED has a non-empty observations list
\* whose last entry is the reason the handler added; its final_decision is REJECTED
\* exactly when the exception was a document-validation rejection and MANUAL_REVIEW
\* for every other exception; after a validation rejection it has exactly one
\* observation, the default document_type, no structured data and confidence 0.
C36_FailedResult ==
    Returned /\ result.processing_status = "FAILED"
        => /\ exc # NoExc
           /\ result.observations # <<>>
           /\ LastObservation =
                IF ValidationRejection
                THEN Reason("Validacion de Documento", exc.msg)
                ELSE Reason("Error de Procesamiento", <<"Error inesperado: ">> \o exc.msg)
           /\ result.final_decision = "REJECTED" <=> ValidationRejection
           /\ result.final_decision = "MANUAL_REVIEW" <=> ~ValidationRejection
           /\ ValidationRejection
                => /\ Len(result.observations) = 1
                   /\ result.document_type = Desconocido
                   /\ result.data_structure = EmptyDict
                   /\ contexto.confidence_score = 0

\* A validation rejection was returned as a FAILED result
C36_Witness ==
    /\ Returned
    /\ result.processing_status = "FAILED"
    /\ ValidationRejection
    /\ result.final_decision = "REJECTED"
    /\ Len(result.observations) = 1

\* Another exception, raised after the classification had filled the context
C36_WitnessOther ==
    /\ Returned
    /\ result.processing_status = "FAILED"
    /\ ~ValidationRejection
    /\ result.final_decision = "MANUAL_REVIEW"
    /\ result.document_type # Desconocido


\* The structured data lack the id number or the name
LacksIdentity(data) == ~Truthy(DerivedRut(data)) \/ ~Truthy(DerivedName(data))

\* C37: when the document is classified as the front side of the national identity
\* card and the structured data are empty or lack the id number or the name, the
\* identity stage makes no network call, its synthetic invalid result adds the
\* reason of a provider-reported invalid number, and the invocation, whose
\* classification stage has returned, ends COMPLETED with final_decision REJECTED.
C37_MissingIdentityFieldsRejected ==
    /\ [][pc = "identity" /\ LacksIdentity(contexto.structured_data)
            => /\ calls' = Append(calls, "identity")
               /\ ~contexto'.boostr_validation.valid
               /\ contexto'.rejection_reasons # <<>>
               /\ contexto'.rejection_reasons[Len(contexto'.rejection_reasons)].rule
                     = "Validacion Boostr"
               /\ contexto'.final_decision = "REJECTED"]_vars
    /\ [](Returned /\ Notified("CLASSIFICATION")
                   /\ result.document_type = CedulaFrontal
                   /\ LacksIdentity(result.data_structure)
            => /\ ~Called("boostr_http")
               /\ result.processing_status = "COMPLETED"
               /\ result.final_decision = "REJECTED")

\* Extraction soft-failed on a front side: empty structured data, rejected
C37_Witness ==
    /\ Returned
    /\ result.document_type = CedulaFrontal
    /\ result.data_structure = EmptyDict
    /\ Called("identity")
    /\ ~Called("boostr_http")
    /\ result.processing_status = "COMPLETED"
    /\ result.final_decision = "REJECTED"

\* The id number is there and the name is not
C37_WitnessNoName ==
    /\ Returned
    /\ result.document_type = CedulaFrontal
    /\ Truthy(DerivedRut(result.data_structure))
    /\ ~Truthy(DerivedName(result.data_structure))
    /\ result.final_decision = "REJECTED"


\* The observation of a check that ran and failed, none otherwise
OfFailed(obs) == IF obs # <<>> /\ obs[1].capa = "critical" THEN obs ELSE <<>>

\* The observations of the failed checks in the order type, id number, name, expiry
FailedInOrder(p) ==
    OfFailed(p.type) \o OfFailed(p.rut) \o OfFailed(p.name) \o OfFailed(p.expiry)

\* Nothing to compare: no extracted data and no expected type
NothingComparable ==
    /\ service_call.args.given.extracted_data = EmptyDict
    /\ service_call.args.given.expected_document_type = None

\* C38: the observations validate_document_content returns are the summary followed by
\* exactly one critical observation per failed check, in the order type, id number,
\* name, expiry; a skipped or passed check contributes nothing, so that with empty
\* extracted data and no expected type the decision is APPROVED with the success
\* summary alone.
C38_ObservationsInCheckOrder ==
    Validated =>
        LET p == Produced(service_call.args.given, service_call.args.now)
            r == service_call.out[1]
        IN  /\ r.observations # <<>>
            /\ r.observations[1].capa = SummaryLayer(r.decision)
            /\ Tail(r.observations) = FailedInOrder(p)
            /\ \A i \in 2..Len(r.observations) : r.observations[i].capa = "critical"
            /\ NothingComparable
                  => /\ r.decision = "APPROVED"
                     /\ Len(r.observations) = 1
                     /\ r.observations[1].capa = "success"

\* All four checks failed: five observations
C38_Witness ==
    /\ Validated
    /\ Len(service_call.out[1].observations) = 5
    /\ service_call.out[1].observations[2].message = <<"Document type mismatch">>
    /\ service_call.out[1].observations[3].message = <<"RUT mismatch">>
    /\ service_call.out[1].observations[4].message = <<"Name mismatch">>
    /\ service_call.out[1].observations[5].message = <<"Document expired">>

\* The name and the expiry failed, the id number passed
C38_WitnessPassedBetween ==
    /\ Validated
    /\ Produced(service_call.args.given, service_call.args.now).rut # <<>>
    /\ Len(service_call.out[1].observations) = 3
    /\ service_call.out[1].observations[2].message = <<"Name mismatch">>
    /\ service_call.out[1].observations[3].message = <<"Document expired">>

\* Nothing comparable was given
C38_WitnessNothing ==
    /\ Validated
    /\ NothingComparable
    /\ service_call.out[1].decision = "APPROVED"


\* The record reached the saving of its result
UploadedSaved == Uploaded("update") \/ (Uploaded("done") /\ service_call.out.stored # <<>>)

\* C39: in the uploaded-files handler the content validator is called only when the
\* applicant data are present and the status of the pipeline result is COMPLETED;
\* then the stored final_decision and observations are those the validator returned,
\* whatever the pipeline had decided, and otherwise those of the pipeline.
C39_ContentValidationReplaces ==
    Uploaded("rename") \/ Uploaded("save") \/ UploadedSaved =>
        LET out == service_call.out
            ran == out.validation # <<>>
            kept == IF out.stored # <<>> THEN out.stored[1] ELSE out.result_dict
        IN  /\ ran <=> /\ ApplicantPresent(service_call.args.record.document_data.applicantData)
                       /\ out.pipeline.processing_status = "COMPLETED"
            /\ ran => /\ kept.final_decision = out.validation[1].decision
                      /\ kept.observations = out.validation[1].observations
            /\ ~ran => /\ kept.final_decision = out.pipeline.final_decision
                       /\ kept.observations = out.pipeline.observations
            /\ kept.processing_status = out.pipeline.processing_status

\* The validator approved what the pipeline had rejected, and that was stored
C39_Witness ==
    /\ Uploaded("done")
    /\ service_call.out.stored # <<>>
    /\ service_call.out.pipeline.final_decision = "REJECTED"
    /\ service_call.out.validation # <<>>
    /\ service_call.out.stored[1].final_decision = "APPROVED"
    /\ Len(service_call.out.stored[1].observations) = 1

\* A failed result with applicant data was stored as the pipeline gave it
C39_WitnessFailed ==
    /\ Uploaded("done")
    /\ service_call.out.stored # <<>>
    /\ ApplicantPresent(service_call.args.record.document_data.applicantData)
    /\ service_call.out.pipeline.processing_status = "FAILED"
    /\ service_call.out.stored[1].observations = service_call.out.pipeline.observations

\* The validator rejected what the pipeline had approved
C39_WitnessRejected ==
    /\ Uploaded("done")
    /\ service_call.out.stored # <<>>
    /\ service_call.out.pipeline.final_decision = "APPROVED"
    /\ service_call.out.stored[1].final_decision = "REJECTED"


====
